---- MODULE Spec2Model ----
(***************************************************************************)
(* World Engine extension (Archkr/ST-WorldEngine): the cross-frame         *)
(* synchronization engine of src/index.js and the frame trust registry of  *)
(* src/message-security.js.                                                *)
(*                                                                         *)
(* Twelve specifications share the variables:                              *)
(*   SpecRegistry  message-security.js on its own                          *)
(*   SpecTrust     the frames, their tracking and the inbound listener     *)
(*   Spec          the chat synchronisation                                *)
(*   SpecStream    the streaming aggregator                                *)
(*   SpecCommands  the extraction of /weather and /time directives         *)
(*   SpecFinalize  streams and logs whose texts carry directives           *)
(*   SpecLifecycle set-up and teardown around streams and settings changes *)
(*   SpecDelivery  broadcasts while postMessage of a frame throws          *)
(*   SpecHost      pushMessageToSillyTavern on every kind of host page     *)
(*   SpecLoad      frames loading and reloading around the chat sync       *)
(*   SpecOverlap   overlapping runs of syncChatHistory, with fairness      *)
(*   SpecSettings  normalizeAtmosphereSettings on stored settings          *)
(*                                                                         *)
(* JavaScript values.  A string is a sequence of one-character strings, so *)
(* that trimming and concatenation are computed.  null and undefined of a  *)
(* string-valued slot are the string NULL; an absent object is the record  *)
(* Undefined; an object is a record that has exactly the fields present.   *)
(***************************************************************************)
EXTENDS Integers, Sequences, FiniteSets, TLC

VARIABLES
    trackedFrameOrigins,    \* message-security.js:1   WeakMap window -> {origin, iframe}
    cachedWorldState,       \* index.js:57
    atmospherePrompt,       \* index.js:157  the prompt handed to setExtensionPrompt
    settings,               \* extension_settings, the three flags index.js:35-48 read
    iframes,                \* the DOM: the rendered world-engine iframes and their src
    messageListener,        \* window has the 'message' listener of index.js:545
    chat,                   \* the host's message log, getContext().chat
    chatSyncState,          \* index.js:28-33
    pendingSyncs,           \* syncChatHistory runs suspended at the await of index.js:285
    chatIntegrationHandle,  \* index.js:25
    chatPollTimer,          \* index.js:26
    statePollTimer,         \* index.js:58
    out,                    \* messages posted to the frames by the last step
    hostOut,                \* uses of the host's send pathway by the last step
    threw,                  \* the last step ended in an uncaught exception
    lastOp,                 \* history: the last step, its input and what the claims expect of it
    lastHistory,            \* history: signature and length of the last history broadcast
    lastSyncDone,           \* history: snapshot of the sync run that completed last, no event since
    streamLog,              \* history: the tokens appended since the last stream-start
    typingShown,            \* history: the last typing broadcast to the frames had typing = true
    throwingFrames,         \* the frame windows whose postMessage throws
    browser                 \* the interval timers running and the message listeners
                            \* registered on window: how many of each

vars == <<trackedFrameOrigins, cachedWorldState, atmospherePrompt, settings, iframes,
          messageListener, chat, chatSyncState, pendingSyncs, chatIntegrationHandle, chatPollTimer,
          statePollTimer, out, hostOut, threw, lastOp, lastHistory, lastSyncDone,
          streamLog, typingShown, throwingFrames, browser>>

trustVars == <<trackedFrameOrigins, cachedWorldState, atmospherePrompt>>
timerVars == <<chatIntegrationHandle, chatPollTimer, statePollTimer, messageListener>>
syncGhost == <<lastHistory, lastSyncDone, streamLog>>

-----------------------------------------------------------------------------
(* Values *)

NULL == "<null>"
Undefined == [undefined |-> TRUE]
NoOp == [name |-> "init"]

\* JavaScript truthiness of a string-or-null slot and of an object-or-undefined slot
TruthyString(s) == s # NULL /\ s # ""
TruthyObject(o) == "undefined" \notin DOMAIN o

EXTENSION_NAME == "world-engine"
CHAT_ROLE_USER == "user"
CHAT_ROLE_ASSISTANT == "assistant"
CHAT_ROLE_SYSTEM == "system"

\* string values of a slot that may also hold a non-string
Str(s) == [type |-> "string", val |-> s]
NotAString == [type |-> "number", val |-> <<>>]
NoValue == [type |-> "undefined", val |-> <<>>]

IsSpace(c) == c \in {" ", "\t", "\n"}

RECURSIVE TrimStart(_)
TrimStart(s) ==
    IF s = <<>> THEN <<>>
    ELSE IF IsSpace(Head(s)) THEN TrimStart(Tail(s)) ELSE s

RECURSIVE TrimEnd(_)
TrimEnd(s) ==
    IF s = <<>> THEN <<>>
    ELSE IF IsSpace(s[Len(s)]) THEN TrimEnd(SubSeq(s, 1, Len(s) - 1)) ELSE s

\* String.prototype.trim
Trim(s) == TrimEnd(TrimStart(s))

-----------------------------------------------------------------------------
(* Frame trust registry: src/message-security.js *)

\* the windows that can send a message event; FrameWindows are the content
\* windows of the two iframes the extension renders, the third is foreign
FrameWindows == {"w1", "w2"}
Windows == FrameWindows \cup {"w3"}
IframeElements == {"popup", "panel"}

\* iframe.contentWindow
ContentWindow(iframe) ==
    CASE iframe = "popup" -> "w1"
      [] iframe = "panel" -> "w2"
      [] OTHER -> NULL

Origins == {"https://a", "https://b"}

\* the src attribute of an iframe and what lines 219-228 of index.js make of it:
\* "" is no src (origin stays null), any other string the URL constructor
\* rejects leaves origin null too
IframeSrcs == {"", "https://a/view", "https://b/view"}
ViewSrc == "https://a/view"
UrlOrigin(src) ==
    CASE src = "https://a/view" -> "https://a"
      [] src = "https://b/view" -> "https://b"
      [] OTHER -> NULL

NoFrameInfo == [untracked |-> TRUE]

\* WeakMap.get
TrackedGet(map, w) == IF w \in DOMAIN map THEN map[w] ELSE NoFrameInfo

\* variant of rememberFrameOrigin: a handle keeps the record of its first call
rememberFrameOrigin_FirstWins(map, frameWindow, origin, iframe) ==
    IF frameWindow = NULL \/ frameWindow \in DOMAIN map THEN map
    ELSE [w \in DOMAIN map \cup {frameWindow} |->
            IF w = frameWindow THEN [origin |-> origin, iframe |-> iframe]
            ELSE map[w]]

\* rememberFrameOrigin(frameWindow, origin, iframe): the map after the call
rememberFrameOrigin(map, frameWindow, origin, iframe) ==
    IF frameWindow = NULL THEN map
    ELSE [w \in DOMAIN map \cup {frameWindow} |->
            IF w = frameWindow THEN [origin |-> origin, iframe |-> iframe]
            ELSE map[w]]

\* variant of the mismatch test: the origin of the event is compared even
\* when the event carries none
OriginMismatch_AnyEventOrigin(frameInfo, event) ==
    /\ TruthyString(frameInfo.origin)
    /\ frameInfo.origin # event.origin

\* the mismatch test of resolveTrackedFrame, line 24
OriginMismatch(frameInfo, event) ==
    /\ TruthyString(frameInfo.origin)
    /\ TruthyString(event.origin)
    /\ frameInfo.origin # event.origin

\* variant of resolveTrackedFrame: a record without an origin is not trusted
resolveTrackedFrame_OriginRequired(map, event) ==
    LET frameInfo == IF event.source # NULL THEN TrackedGet(map, event.source)
                     ELSE NoFrameInfo
    IN  IF frameInfo = NoFrameInfo THEN NoFrameInfo
        ELSE IF frameInfo.origin = NULL \/ OriginMismatch(frameInfo, event) THEN NoFrameInfo
        ELSE frameInfo

\* variant of resolveTrackedFrame: a sender without a record is trusted
resolveTrackedFrame_AnySender(map, event) ==
    LET frameInfo == IF event.source # NULL THEN TrackedGet(map, event.source)
                     ELSE NoFrameInfo
    IN  IF frameInfo = NoFrameInfo THEN [origin |-> NULL, iframe |-> NULL]
        ELSE IF OriginMismatch(frameInfo, event) THEN NoFrameInfo
        ELSE frameInfo

\* resolveTrackedFrame(event): the record, or NoFrameInfo for null
resolveTrackedFrame(map, event) ==
    LET frameInfo == IF event.source # NULL THEN TrackedGet(map, event.source)
                     ELSE NoFrameInfo
    IN  IF frameInfo = NoFrameInfo THEN NoFrameInfo
        ELSE IF OriginMismatch(frameInfo, event) THEN NoFrameInfo
        ELSE frameInfo

-----------------------------------------------------------------------------
(* The DOM and the frames: src/index.js 197-253 *)

\* document order of the rendered iframes
FrameOrder == <<"panel", "popup">>

RECURSIVE RenderedFrom(_, _)
RenderedFrom(dom, k) ==
    IF k > Len(FrameOrder) THEN <<>>
    ELSE (IF FrameOrder[k] \in DOMAIN dom THEN <<FrameOrder[k]>> ELSE <<>>)
         \o RenderedFrom(dom, k + 1)

\* document.querySelectorAll over the world-engine iframes
RenderedIframes(dom) == RenderedFrom(dom, 1)

\* getWorldEngineFrames(): the content windows, in document order
getWorldEngineFrames(dom) ==
    LET els == RenderedIframes(dom)
    IN  [k \in 1..Len(els) |-> ContentWindow(els[k])]

\* trackWorldEngineFrame(iframe): the registry after the call
trackWorldEngineFrame(map, dom, iframe) ==
    IF iframe \notin DOMAIN dom THEN map
    ELSE LET frameWindow == ContentWindow(iframe)
             src == dom[iframe]
             origin == IF src # "" THEN UrlOrigin(src) ELSE NULL
         IN  IF frameWindow = NULL THEN map
             ELSE rememberFrameOrigin(map, frameWindow, origin, iframe)

RECURSIVE TrackAll(_, _, _)
TrackAll(map, dom, els) ==
    IF els = <<>> THEN map
    ELSE TrackAll(trackWorldEngineFrame(map, dom, Head(els)), dom, Tail(els))

\* trackRenderedWorldEngineFrames()
trackRenderedWorldEngineFrames(map, dom) == TrackAll(map, dom, RenderedIframes(dom))

\* the frames a broadcast goes to: the target frame alone, or every frame
TargetFrames(dom, targetFrame) ==
    IF targetFrame # NULL THEN <<targetFrame>> ELSE getWorldEngineFrames(dom)

\* frames.forEach with the try and catch around postMessage (lines 243-251,
\* 458-466, 613-622): the calls of postMessage made, one for every frame; a
\* call that throws is caught and the next frame is called
PostToEach(frames, type, payload) ==
    [k \in 1..Len(frames) |->
        [to |-> frames[k], source |-> EXTENSION_NAME, type |-> type, payload |-> payload]]

\* the same without the try and catch: the first call that throws ends the loop
RECURSIVE PostUntilThrow(_, _, _)
PostUntilThrow(frames, type, payload) ==
    IF frames = <<>> THEN <<>>
    ELSE <<[to |-> Head(frames), source |-> EXTENSION_NAME, type |-> type,
            payload |-> payload]>>
         \o (IF Head(frames) \in throwingFrames THEN <<>>
             ELSE PostUntilThrow(Tail(frames), type, payload))

\* variant of broadcastChatPayload: postMessage is called outside a try
broadcastChatPayload_NoCatch(dom, payload, targetFrame) ==
    PostUntilThrow(TargetFrames(dom, targetFrame), "world-engine-chat", payload)

\* broadcastChatPayload(payload, targetFrame): the messages posted
broadcastChatPayload(dom, payload, targetFrame) ==
    PostToEach(TargetFrames(dom, targetFrame), "world-engine-chat", payload)

\* broadcastCommand(payload): the messages posted
broadcastCommand(dom, payload, targetFrame) ==
    PostToEach(TargetFrames(dom, targetFrame), "world-engine-command", payload)

\* the posts of pollWorldState(), lines 608-623
PollPosts(dom) == PostToEach(getWorldEngineFrames(dom), "get-world-state", Undefined)

-----------------------------------------------------------------------------
(* Settings flags: src/index.js 35-48 *)

shouldStreamAssistantMessages(s) == s.enableStreaming
shouldShowTypingIndicator(s) == s.showTypingIndicator
\* variant of allowAutoreplies: the setting is not read
allowAutoreplies_Always(s) == TRUE
allowAutoreplies(s) == s.enableAutoreplies

-----------------------------------------------------------------------------
(* The host's send pathway: src/index.js 470-507 *)

\* what the page offers: window.send_message, SillyTavern.sendMessage, the
\* textarea, a send button, a form
HostEnvs ==
    {[send_message |-> TRUE, sendMessage |-> TRUE, textarea |-> TRUE,
      sendButton |-> TRUE, form |-> TRUE],
     [send_message |-> FALSE, sendMessage |-> TRUE, textarea |-> TRUE,
      sendButton |-> TRUE, form |-> TRUE],
     [send_message |-> FALSE, sendMessage |-> FALSE, textarea |-> TRUE,
      sendButton |-> TRUE, form |-> TRUE],
     [send_message |-> FALSE, sendMessage |-> FALSE, textarea |-> TRUE,
      sendButton |-> FALSE, form |-> TRUE],
     [send_message |-> FALSE, sendMessage |-> FALSE, textarea |-> FALSE,
      sendButton |-> FALSE, form |-> FALSE]}

NoHostOut == [pushed |-> <<>>, calls |-> <<>>]

\* building the state note of line 475 reads position.x of the cached state
StateNoteThrows(cached) == TruthyObject(cached) /\ "position" \notin DOMAIN cached

\* variant of DeliverToHost: the click of the send button does not return, so
\* that the form is submitted as well
DeliverToHost_ClickAndSubmit(env, finalMessage) ==
    IF env.send_message THEN <<[via |-> "send_message", message |-> finalMessage]>>
    ELSE IF env.sendMessage THEN <<[via |-> "SillyTavern.sendMessage", message |-> finalMessage]>>
    ELSE (IF env.textarea THEN <<[via |-> "textarea.input", message |-> finalMessage]>> ELSE <<>>)
         \o (IF env.sendButton THEN <<[via |-> "sendButton.click", message |-> finalMessage]>>
             ELSE <<>>)
         \o (IF env.form THEN <<[via |-> "form.submit", message |-> finalMessage]>> ELSE <<>>)

\* the pathways used for finalMessage, lines 481-506
DeliverToHost(env, finalMessage) ==
    IF env.send_message THEN <<[via |-> "send_message", message |-> finalMessage]>>
    ELSE IF env.sendMessage THEN <<[via |-> "SillyTavern.sendMessage", message |-> finalMessage]>>
    ELSE (IF env.textarea THEN <<[via |-> "textarea.input", message |-> finalMessage]>> ELSE <<>>)
         \o (IF env.sendButton THEN <<[via |-> "sendButton.click", message |-> finalMessage]>>
             ELSE IF env.form THEN <<[via |-> "form.submit", message |-> finalMessage]>>
             ELSE <<>>)

\* pushMessageToSillyTavern(text): whether it threw and what reached the host
pushMessageToSillyTavern(cached, env, text) ==
    IF text = <<>> THEN [threw |-> FALSE, hostOut |-> [pushed |-> <<text>>, calls |-> <<>>]]
    ELSE IF StateNoteThrows(cached)
         THEN [threw |-> TRUE, hostOut |-> [pushed |-> <<text>>, calls |-> <<>>]]
    ELSE [threw |-> FALSE,
          hostOut |-> [pushed |-> <<text>>,
                       calls |-> DeliverToHost(env, [text |-> text,
                                                     stateNote |-> TruthyObject(cached)])]]

-----------------------------------------------------------------------------
(* Inbound frame messages: src/index.js 139-158 and 509-540 *)

\* payloads a frame can send
StateFull ==
    [time |-> "13.5", weather |-> "rainy", locationDescription |-> "hall",
     position |-> [x |-> "0", y |-> "0", z |-> "0"]]
StatePartial == [time |-> "13.5"]
ClickAvatar == [target |-> "avatar", action |-> "click"]
ClickOther == [target |-> "door", action |-> "click"]
ChatOutgoing == [text |-> Str(<<" ", "h", "i", " ">>), direction |-> "outgoing"]
ChatBlank == [text |-> Str(<<" ">>), direction |-> "outgoing"]
ChatIncoming == [text |-> Str(<<"h", "i">>), direction |-> "incoming"]
ChatNotAString == [text |-> NotAString, direction |-> "outgoing"]

\* event.data of the messages the listener can see: none, well-formed ones,
\* ones whose payload has the shape of another type, ones of another sender
WellFormedData ==
    [source : {EXTENSION_NAME}, type : {"world-engine-state"},
     payload : {StateFull, StatePartial, Undefined}]
    \cup [source : {EXTENSION_NAME}, type : {"world-engine-interaction"},
          payload : {ClickAvatar, ClickOther}]
    \cup [source : {EXTENSION_NAME}, type : {"world-engine-chat"},
          payload : {ChatOutgoing, ChatBlank, ChatIncoming, ChatNotAString, Undefined}]
    \cup [source : {EXTENSION_NAME}, type : {"get-world-state"}, payload : {Undefined}]
ForeignData ==
    {[source |-> "other-extension", type |-> "world-engine-chat", payload |-> ChatOutgoing],
     [source |-> NULL, type |-> "world-engine-state", payload |-> StatePartial]}
EventData == {Undefined} \cup WellFormedData \cup ForeignData

\* event.origin: "" is what a synthetic MessageEvent carries
EventOrigins == Origins \cup {""}

InboundEvents == [source : Windows \cup {NULL}, origin : EventOrigins, data : EventData]

\* typeof payload.text === 'string' ? payload.text.trim() : ''
ChatText(payload) ==
    IF TruthyObject(payload) /\ "text" \in DOMAIN payload /\ payload.text.type = "string"
    THEN Trim(payload.text.val)
    ELSE <<>>

\* obj?.field === value
FieldIs(obj, field, value) ==
    TruthyObject(obj) /\ field \in DOMAIN obj /\ obj[field] = value

\* obj?.field ?? fallback
FieldOr(obj, field, fallback) ==
    IF TruthyObject(obj) /\ field \in DOMAIN obj THEN obj[field] ELSE fallback

\* the literal of line 538, kept whole
AvatarTouchText == <<"[System: You touch the avatar on the shoulder.]">>

\* resolveAtmosphereSnapshot(): the cached state's time and weather, else the
\* settings' own; the labels are kept as their sources
resolveAtmosphereSnapshot(cached) ==
    [timeLabel |-> FieldOr(cached, "time", "settings.timeOfDay"),
     weatherLabel |-> FieldOr(cached, "weather", "settings.weather")]

\* variant of ChatDropped: the autoreplies setting is not consulted
ChatDropped_WithoutSetting(text, payload, s) ==
    \/ text = <<>>
    \/ ~FieldIs(payload, "direction", "outgoing")

\* the condition of line 531 under which the chat text is dropped
ChatDropped(text, payload, s) ==
    \/ text = <<>>
    \/ ~FieldIs(payload, "direction", "outgoing")
    \/ ~allowAutoreplies(s)

\* handleInteraction(payload): the text pushed, <<>> for none
handleInteraction(payload) ==
    IF FieldIs(payload, "target", "avatar") /\ FieldIs(payload, "action", "click")
    THEN AvatarTouchText
    ELSE <<>>

\* handleFrameChatMessage(event): what the handler does, as a record of the
\* new values; env is what the page offers the send pathway at that moment
handleFrameChatMessage(map, cached, prompt, s, event, env) ==
    LET data == event.data
        same == [cached |-> cached, prompt |-> prompt, threw |-> FALSE, hostOut |-> NoHostOut]
        frameInfo == resolveTrackedFrame(map, event)
    IN  IF ~TruthyObject(data) \/ data.source # EXTENSION_NAME THEN same
        ELSE IF frameInfo = NoFrameInfo THEN same
        ELSE IF data.type = "world-engine-state"
             THEN [same EXCEPT !.cached = data.payload,
                               !.prompt = resolveAtmosphereSnapshot(data.payload)]
        ELSE IF data.type = "world-engine-interaction"
             THEN LET text == handleInteraction(data.payload)
                      r == pushMessageToSillyTavern(cached, env, text)
                  IN  IF text = <<>> THEN same
                      ELSE [same EXCEPT !.threw = r.threw, !.hostOut = r.hostOut]
        ELSE IF data.type # "world-engine-chat" THEN same
        ELSE LET payload == data.payload
                 text == ChatText(payload)
                 r == pushMessageToSillyTavern(cached, env, text)
             IN  IF ChatDropped(text, payload, s) THEN same
                 ELSE [same EXCEPT !.threw = r.threw, !.hostOut = r.hostOut]

-----------------------------------------------------------------------------
(* The host log and its snapshots.  normalizeHistoryEntry and               *)
(* buildHistorySnapshot live in chat-integration.js, which is not among the *)
(* sources: they follow sections 3 and 4.3 of the specification.            *)

MaxChat == 2
MaxTokens == 2
MaxPending == 1
HostMaxContext == 3
CHAT_SYNC_HISTORY_LIMIT == 24

\* the messages the host log can hold
HostMessages ==
    {[role |-> CHAT_ROLE_ASSISTANT, mes |-> <<"a">>],
     [role |-> CHAT_ROLE_USER, mes |-> <<"a">>]}

NullSignature == [kind |-> "null", body |-> <<>>]

\* the fingerprint of one entry: content, role and position
EntrySignature(i, role, text) ==
    [kind |-> "entry", body |-> <<[pos |-> i, role |-> role, text |-> text]>>]

\* normalizeHistoryEntry(chat[i], ctx): Undefined for a message that is not there
normalizeHistoryEntry(log, i) ==
    IF i \notin 1..Len(log) THEN Undefined
    ELSE [role |-> log[i].role, text |-> log[i].mes,
          signature |-> EntrySignature(i, log[i].role, log[i].mes)]

Max(a, b) == IF a > b THEN a ELSE b

\* the estimated size of an entry against the token budget
EstimatedSize(entry) == 1 + Len(entry.text)

RECURSIVE TotalSize(_)
TotalSize(entries) ==
    IF entries = <<>> THEN 0 ELSE EstimatedSize(Head(entries)) + TotalSize(Tail(entries))

\* drop the oldest entries until the rest fits the budget; 0 is no budget
RECURSIVE FitBudget(_, _)
FitBudget(entries, tokenBudget) ==
    IF tokenBudget = 0 \/ entries = <<>> \/ TotalSize(entries) <= tokenBudget THEN entries
    ELSE FitBudget(Tail(entries), tokenBudget)

\* the composite fingerprint over the kept entries and their count
SnapshotSignature(history) ==
    [kind |-> "snapshot",
     body |-> [k \in 1..Len(history) |-> history[k].signature.body[1]]]

\* buildHistorySnapshot({limitMessages, tokenBudget, includeSystem: true})
buildHistorySnapshot(log, limitMessages, tokenBudget) ==
    LET first == Max(1, Len(log) - limitMessages + 1)
        window == [k \in 1..(Len(log) - first + 1) |-> normalizeHistoryEntry(log, first + k - 1)]
        history == FitBudget(window, tokenBudget)
    IN  [history |-> history, signature |-> SnapshotSignature(history)]

\* getLatestAssistantEntry(), index.js 255-268: Undefined for null
getLatestAssistantEntry(log) ==
    LET startIndex == Max(1, Len(log) - CHAT_SYNC_HISTORY_LIMIT * 2 + 1)
        found == {i \in startIndex..Len(log) :
                    normalizeHistoryEntry(log, i).role = CHAT_ROLE_ASSISTANT}
    IN  IF found = {} THEN Undefined
        ELSE normalizeHistoryEntry(log, CHOOSE i \in found : \A j \in found : j <= i)

\* entry?.signature ?? null
SignatureOf(entry) == IF TruthyObject(entry) THEN entry.signature ELSE NullSignature

\* variant of refreshLastSignatureFromHistory: the signature is computed and
\* returned but not stored
refreshLastSignatureFromHistory_ReadOnly(st, log) == st

\* refreshLastSignatureFromHistory(), index.js 270-280: the new chatSyncState
refreshLastSignatureFromHistory(st, log) ==
    LET latestSignature == SignatureOf(getLatestAssistantEntry(log))
    IN  IF latestSignature = st.lastSignature THEN st
        ELSE [st EXCEPT !.lastSignature = latestSignature]

-----------------------------------------------------------------------------
(* Chat synchronisation and the streaming aggregator: src/index.js 282-419 *)

ResetSyncState ==
    [lastSignature |-> NullSignature, streamingBuffer |-> <<>>,
     streamingActive |-> FALSE, lastHistoryLength |-> 0]

\* broadcastTypingState(isTyping): the messages posted
broadcastTypingState(st, s, dom, isTyping) ==
    IF ~shouldShowTypingIndicator(s) THEN <<>>
    ELSE broadcastChatPayload(dom,
            [role |-> CHAT_ROLE_ASSISTANT, direction |-> "incoming",
             typing |-> isTyping, signature |-> st.lastSignature], NULL)

\* what the frames show after the messages of a step were posted: the typing
\* value of the last typing payload among them, else what they showed before
RECURSIVE TypingAfter(_, _)
TypingAfter(shown, posts) ==
    IF posts = <<>> THEN shown
    ELSE TypingAfter(IF "typing" \in DOMAIN Head(posts).payload
                     THEN Head(posts).payload.typing ELSE shown,
                     Tail(posts))

\* the payload of broadcastAssistantPayload, lines 373-387: <<>> when there is
\* no entry to address, else the one payload
AssistantPayload(log, baseMessage, textOverride, overwrite) ==
    LET normalized == IF TruthyObject(baseMessage) THEN baseMessage
                      ELSE getLatestAssistantEntry(log)
    IN  IF ~TruthyObject(normalized) \/ normalized.role # CHAT_ROLE_ASSISTANT THEN <<>>
        ELSE <<[text |-> IF textOverride.type = "string" THEN textOverride.val
                         ELSE normalized.text,
                role |-> CHAT_ROLE_ASSISTANT, direction |-> "incoming",
                signature |-> normalized.signature, overwrite |-> overwrite]>>

\* broadcastAssistantPayload({baseMessage, textOverride, overwrite}): the messages posted
broadcastAssistantPayload(log, dom, baseMessage, textOverride, overwrite) ==
    LET payloads == AssistantPayload(log, baseMessage, textOverride, overwrite)
    IN  IF payloads = <<>> THEN <<>> ELSE broadcastChatPayload(dom, payloads[1], NULL)

\* variant of resetChatSyncState: the buffer is not emptied
resetChatSyncState_KeepBuffer(st, s, dom) ==
    [st |-> [ResetSyncState EXCEPT !.streamingBuffer = st.streamingBuffer],
     posts |-> broadcastTypingState(st, s, dom, FALSE)]

\* variant of resetChatSyncState: the frames are told nothing
resetChatSyncState_Silent(st, s, dom) ==
    [st |-> ResetSyncState, posts |-> <<>>]

\* resetChatSyncState(): the state and the messages posted
resetChatSyncState(st, s, dom) ==
    [st |-> ResetSyncState, posts |-> broadcastTypingState(st, s, dom, FALSE)]

\* the arguments a stream-token event can carry
TokenTexts == {<<"x">>, <<"y">>}
NumberArg == [type |-> "number"]
ObjectArg(fields) == [type |-> "object", val |-> fields]
TokenArgs ==
    {<<>>, <<NumberArg>>, <<ObjectArg([other |-> Str(<<"x">>)])>>, <<Str(<<>>)>>,
     <<ObjectArg([token |-> Str(<<>>), text |-> Str(<<"y">>)])>>}
    \cup {<<NumberArg, Str(t)>> : t \in TokenTexts}
    \cup {<<ObjectArg([token |-> Str(t)])>> : t \in TokenTexts}
    \cup {<<ObjectArg([text |-> Str(t)])>> : t \in TokenTexts}
    \cup {<<Str(t)>> : t \in TokenTexts}

\* args.join(' ') over string arguments
RECURSIVE JoinArgs(_)
JoinArgs(args) ==
    IF args = <<>> THEN <<>>
    ELSE IF Len(args) = 1 THEN Head(args).val
    ELSE Head(args).val \o <<" ">> \o JoinArgs(Tail(args))

\* resolveTokenText(args), lines 328-337
resolveTokenText(args) ==
    IF Len(args) = 0 THEN <<>>
    ELSE IF args[1].type = "number"
         THEN (IF Len(args) >= 2 THEN args[2].val ELSE <<>>)
    ELSE IF args[1].type = "object"
         THEN (IF "token" \in DOMAIN args[1].val THEN args[1].val.token.val
               ELSE IF "text" \in DOMAIN args[1].val THEN args[1].val.text.val
               ELSE <<>>)
    ELSE JoinArgs(args)

\* the letters: the flag i of both patterns and toLowerCase of line 442
UpperCaseLetters == <<"A", "B", "C", "D", "E", "F", "G", "H", "I", "J", "K", "L", "M">>
                    \o <<"N", "O", "P", "Q", "R", "S", "T", "U", "V", "W", "X", "Y", "Z">>
LowerCaseLetters == <<"a", "b", "c", "d", "e", "f", "g", "h", "i", "j", "k", "l", "m">>
                    \o <<"n", "o", "p", "q", "r", "s", "t", "u", "v", "w", "x", "y", "z">>
ToLowerChar(c) ==
    IF \E k \in 1..Len(UpperCaseLetters) : UpperCaseLetters[k] = c
    THEN LowerCaseLetters[CHOOSE k \in 1..Len(UpperCaseLetters) : UpperCaseLetters[k] = c]
    ELSE c
\* variant of toLowerCase: the text as it is written
ToLowerCase_AsWritten(s) == s
ToLowerCase(s) == [k \in 1..Len(s) |-> ToLowerChar(s[k])]

\* \d
DigitChars == <<"0", "1", "2", "3", "4", "5", "6", "7", "8", "9">>
IsDigit(c) == \E k \in 1..Len(DigitChars) : DigitChars[k] = c
DigitValue(c) == (CHOOSE k \in 1..Len(DigitChars) : DigitChars[k] = c) - 1

\* the literal word, given in lower case, stands at position i of the text,
\* in either case
LiteralAt(text, i, word) ==
    /\ i + Len(word) - 1 <= Len(text)
    /\ \A k \in 1..Len(word) : ToLowerChar(text[i + k - 1]) = word[k]

\* the position after the run of \s that starts at i, and after the run of \d
RECURSIVE SpacesEnd(_, _)
SpacesEnd(text, i) ==
    IF i <= Len(text) /\ IsSpace(text[i]) THEN SpacesEnd(text, i + 1) ELSE i
RECURSIVE DigitsEnd(_, _)
DigitsEnd(text, i) ==
    IF i <= Len(text) /\ IsDigit(text[i]) THEN DigitsEnd(text, i + 1) ELSE i

WeatherDirective == <<"/", "w", "e", "a", "t", "h", "e", "r">>
WeatherWords == <<<<"c", "l", "e", "a", "r">>, <<"r", "a", "i", "n", "y">>, <<"f", "o", "g", "g", "y">>>>
TimeDirective == <<"/", "t", "i", "m", "e">>

\* /\/weather\s+(clear|rainy|foggy)/i matches from position i on
WeatherMatchAt(text, i) ==
    LET j == i + Len(WeatherDirective)
        k == SpacesEnd(text, j)
    IN  /\ LiteralAt(text, i, WeatherDirective)
        /\ k > j
        /\ \E w \in 1..Len(WeatherWords) : LiteralAt(text, k, WeatherWords[w])

\* variant of the weather match: the last place the pattern matches
weatherMatch_Last(text) ==
    LET at == {i \in 1..Len(text) : WeatherMatchAt(text, i)}
    IN  IF at = {} THEN <<>>
        ELSE LET i == CHOOSE x \in at : \A y \in at : x >= y
                 k == SpacesEnd(text, i + Len(WeatherDirective))
                 w == CHOOSE x \in 1..Len(WeatherWords) : LiteralAt(text, k, WeatherWords[x])
             IN  <<SubSeq(text, k, k + Len(WeatherWords[w]) - 1)>>

\* text.match of line 440: <<>> for null, else the one captured group
weatherMatch(text) ==
    LET at == {i \in 1..Len(text) : WeatherMatchAt(text, i)}
    IN  IF at = {} THEN <<>>
        ELSE LET i == CHOOSE x \in at : \A y \in at : x <= y
                 k == SpacesEnd(text, i + Len(WeatherDirective))
                 w == CHOOSE x \in 1..Len(WeatherWords) : LiteralAt(text, k, WeatherWords[x])
             IN  <<SubSeq(text, k, k + Len(WeatherWords[w]) - 1)>>

\* /\/time\s+(\d+(\.\d+)?)/i matches from position i on
TimeMatchAt(text, i) ==
    LET j == i + Len(TimeDirective)
        k == SpacesEnd(text, j)
    IN  /\ LiteralAt(text, i, TimeDirective)
        /\ k > j
        /\ DigitsEnd(text, k) > k

\* text.match of line 447: <<>> for null, else the one captured numeral
timeMatch(text) ==
    LET at == {i \in 1..Len(text) : TimeMatchAt(text, i)}
    IN  IF at = {} THEN <<>>
        ELSE LET i == CHOOSE x \in at : \A y \in at : x <= y
                 k == SpacesEnd(text, i + Len(TimeDirective))
                 e == DigitsEnd(text, k)
                 f == IF e <= Len(text) /\ text[e] = "." /\ DigitsEnd(text, e + 1) > e + 1
                      THEN DigitsEnd(text, e + 1) ELSE e
             IN  <<SubSeq(text, k, f - 1)>>

\* the number a numeral of digits stands for: its whole part, and its
\* fraction digits without the trailing zeros
RECURSIVE WholeValue(_)
WholeValue(digits) ==
    IF digits = <<>> THEN 0
    ELSE 10 * WholeValue(SubSeq(digits, 1, Len(digits) - 1)) + DigitValue(digits[Len(digits)])
RECURSIVE StripZeros(_)
StripZeros(digits) ==
    IF digits # <<>> /\ digits[Len(digits)] = "0"
    THEN StripZeros(SubSeq(digits, 1, Len(digits) - 1)) ELSE digits

\* variant of parseFloat: the number is clamped to the hours of a day
parseFloat_Clamped(numeral) ==
    LET e == DigitsEnd(numeral, 1)
        whole == WholeValue(SubSeq(numeral, 1, e - 1))
    IN  IF whole >= 24 THEN [negative |-> FALSE, whole |-> 24, fraction |-> <<>>]
        ELSE [negative |-> FALSE, whole |-> whole,
              fraction |-> StripZeros(SubSeq(numeral, e + 1, Len(numeral)))]

\* parseFloat of a numeral \d+(\.\d+)?
parseFloat(numeral) ==
    LET e == DigitsEnd(numeral, 1)
    IN  [negative |-> FALSE,
         whole |-> WholeValue(SubSeq(numeral, 1, e - 1)),
         fraction |-> StripZeros(SubSeq(numeral, e + 1, Len(numeral)))]

\* checkForWorldCommands(text), lines 435-453: the command messages posted
checkForWorldCommands(dom, text) ==
    IF text = <<>> THEN <<>>
    ELSE (IF weatherMatch(text) # <<>>
          THEN broadcastCommand(dom, [command |-> "weather",
                                      args |-> <<ToLowerCase(weatherMatch(text)[1])>>], NULL)
          ELSE <<>>)
         \o (IF timeMatch(text) # <<>>
             THEN broadcastCommand(dom, [command |-> "time",
                                         args |-> <<parseFloat(timeMatch(text)[1])>>], NULL)
             ELSE <<>>)

\* variant of handleStreamStart: the buffer of the stream before is kept
handleStreamStart_KeepBuffer(st, s, dom) ==
    LET st1 == [st EXCEPT !.streamingActive = shouldStreamAssistantMessages(s)]
    IN  [st |-> st1, posts |-> broadcastTypingState(st1, s, dom, TRUE)]

\* handleStreamStart(), lines 322-326
handleStreamStart(st, s, dom) ==
    LET st1 == [st EXCEPT !.streamingActive = shouldStreamAssistantMessages(s),
                          !.streamingBuffer = <<>>]
    IN  [st |-> st1, posts |-> broadcastTypingState(st1, s, dom, TRUE)]

\* variant of handleStreamToken: the broadcast carries the token, not the buffer
handleStreamToken_Delta(st, log, dom, args) ==
    LET tokenText == resolveTokenText(args)
        st1 == [st EXCEPT !.streamingBuffer = st.streamingBuffer \o tokenText]
        st2 == refreshLastSignatureFromHistory(st1, log)
        latestAssistantEntry == getLatestAssistantEntry(log)
    IN  IF ~st.streamingActive THEN [st |-> st, posts |-> <<>>, appended |-> FALSE]
        ELSE IF tokenText = <<>> THEN [st |-> st, posts |-> <<>>, appended |-> FALSE]
        ELSE [st |-> st2,
              posts |-> broadcastAssistantPayload(log, dom, latestAssistantEntry,
                                                  Str(tokenText), TRUE),
              appended |-> TRUE]

\* variant of handleStreamToken: the token replaces the buffer
handleStreamToken_Replace(st, log, dom, args) ==
    LET tokenText == resolveTokenText(args)
        st1 == [st EXCEPT !.streamingBuffer = tokenText]
        st2 == refreshLastSignatureFromHistory(st1, log)
        latestAssistantEntry == getLatestAssistantEntry(log)
    IN  IF ~st.streamingActive THEN [st |-> st, posts |-> <<>>, appended |-> FALSE]
        ELSE IF tokenText = <<>> THEN [st |-> st, posts |-> <<>>, appended |-> FALSE]
        ELSE [st |-> st2,
              posts |-> broadcastAssistantPayload(log, dom, latestAssistantEntry,
                                                  Str(st2.streamingBuffer), TRUE),
              appended |-> TRUE]

\* variant of handleStreamToken: tokens are taken outside a stream as well
handleStreamToken_Always(st, log, dom, args) ==
    LET tokenText == resolveTokenText(args)
        st1 == [st EXCEPT !.streamingBuffer = st.streamingBuffer \o tokenText]
        st2 == refreshLastSignatureFromHistory(st1, log)
        latestAssistantEntry == getLatestAssistantEntry(log)
    IN  IF tokenText = <<>> THEN [st |-> st, posts |-> <<>>, appended |-> FALSE]
        ELSE [st |-> st2,
              posts |-> broadcastAssistantPayload(log, dom, latestAssistantEntry,
                                                  Str(st2.streamingBuffer), TRUE),
              appended |-> TRUE]

\* handleStreamToken(...args), lines 339-351
handleStreamToken(st, log, dom, args) ==
    LET tokenText == resolveTokenText(args)
        st1 == [st EXCEPT !.streamingBuffer = st.streamingBuffer \o tokenText]
        st2 == refreshLastSignatureFromHistory(st1, log)
        latestAssistantEntry == getLatestAssistantEntry(log)
    IN  IF ~st.streamingActive THEN [st |-> st, posts |-> <<>>, appended |-> FALSE]
        ELSE IF tokenText = <<>> THEN [st |-> st, posts |-> <<>>, appended |-> FALSE]
        ELSE [st |-> st2,
              posts |-> broadcastAssistantPayload(log, dom, latestAssistantEntry,
                                                  Str(st2.streamingBuffer), TRUE),
              appended |-> TRUE]

\* variant of handleMessageFinished: the commands are always taken from the log
handleMessageFinished_EntryCommands(st, s, log, dom) ==
    LET latestAssistantEntry == getLatestAssistantEntry(log)
        fromEntry ==
            IF TruthyObject(latestAssistantEntry) /\ latestAssistantEntry.text # <<>>
            THEN checkForWorldCommands(dom, latestAssistantEntry.text)
            ELSE <<>>
        first ==
            IF st.streamingBuffer # <<>>
            THEN broadcastAssistantPayload(log, dom, Undefined, Str(st.streamingBuffer), TRUE)
                 \o fromEntry
            ELSE fromEntry
    IN  [st |-> [st EXCEPT !.streamingActive = FALSE, !.streamingBuffer = <<>>],
         posts |-> first \o broadcastTypingState(st, s, dom, FALSE)]

\* variant of handleMessageFinished: without a buffer no command is looked for
handleMessageFinished_NoFallback(st, s, log, dom) ==
    LET first ==
            IF st.streamingBuffer # <<>>
            THEN broadcastAssistantPayload(log, dom, Undefined, Str(st.streamingBuffer), TRUE)
                 \o checkForWorldCommands(dom, st.streamingBuffer)
            ELSE <<>>
    IN  [st |-> [st EXCEPT !.streamingActive = FALSE, !.streamingBuffer = <<>>],
         posts |-> first \o broadcastTypingState(st, s, dom, FALSE)]

\* variant of handleMessageFinished: the buffer is kept for the next stream
handleMessageFinished_KeepBuffer(st, s, log, dom) ==
    LET latestAssistantEntry == getLatestAssistantEntry(log)
        first ==
            IF st.streamingBuffer # <<>>
            THEN broadcastAssistantPayload(log, dom, Undefined, Str(st.streamingBuffer), TRUE)
                 \o checkForWorldCommands(dom, st.streamingBuffer)
            ELSE IF TruthyObject(latestAssistantEntry) /\ latestAssistantEntry.text # <<>>
                 THEN checkForWorldCommands(dom, latestAssistantEntry.text)
                 ELSE <<>>
    IN  [st |-> [st EXCEPT !.streamingActive = FALSE],
         posts |-> first \o broadcastTypingState(st, s, dom, FALSE)]

\* handleMessageFinished() up to the call of syncChatHistory, lines 353-368
handleMessageFinished(st, s, log, dom) ==
    LET latestAssistantEntry == getLatestAssistantEntry(log)
        first ==
            IF st.streamingBuffer # <<>>
            THEN broadcastAssistantPayload(log, dom, Undefined, Str(st.streamingBuffer), TRUE)
                 \o checkForWorldCommands(dom, st.streamingBuffer)
            ELSE IF TruthyObject(latestAssistantEntry) /\ latestAssistantEntry.text # <<>>
                 THEN checkForWorldCommands(dom, latestAssistantEntry.text)
                 ELSE <<>>
    IN  [st |-> [st EXCEPT !.streamingActive = FALSE, !.streamingBuffer = <<>>],
         posts |-> first \o broadcastTypingState(st, s, dom, FALSE)]

\* the messageId of a message-received event: an index of the log (0-based in
\* the code, 1-based here), one past its end, or not a number
MessageIds == (1..(MaxChat + 1)) \cup {-1}

\* getMessageFromContext(messageId), lines 50-55, then normalizeHistoryEntry
ReceivedEntry(log, messageId) ==
    IF messageId = -1 THEN Undefined ELSE normalizeHistoryEntry(log, messageId)

\* handleMessageReceivedEvent(messageId), lines 412-419
handleMessageReceivedEvent(st, log, dom, messageId) ==
    LET normalized == ReceivedEntry(log, messageId)
    IN  IF ~TruthyObject(normalized) \/ normalized.role # CHAT_ROLE_ASSISTANT
        THEN [st |-> st, posts |-> <<>>]
        ELSE [st |-> [st EXCEPT !.lastSignature = normalized.signature],
              posts |-> broadcastAssistantPayload(log, dom, normalized, NoValue, FALSE)]

\* variant of syncChatHistory: the snapshot is broadcast without the comparison
syncChatHistoryResume_NoDedup(st, dom, snapshot, targetFrame) ==
    [st |-> [st EXCEPT !.lastSignature = snapshot.signature,
                       !.lastHistoryLength = Len(snapshot.history)],
     posts |-> broadcastChatPayload(dom,
                  [history |-> snapshot.history, direction |-> "incoming",
                   signature |-> snapshot.signature], targetFrame),
     broadcast |-> TRUE]

\* variant of syncChatHistory: the snapshot is skipped when its length alone
\* is the stored one
syncChatHistoryResume_LengthGated(st, dom, snapshot, targetFrame) ==
    IF Len(snapshot.history) = st.lastHistoryLength
    THEN [st |-> st, posts |-> <<>>, broadcast |-> FALSE]
    ELSE [st |-> [st EXCEPT !.lastSignature = snapshot.signature,
                            !.lastHistoryLength = Len(snapshot.history)],
          posts |-> broadcastChatPayload(dom,
                       [history |-> snapshot.history, direction |-> "incoming",
                        signature |-> snapshot.signature], targetFrame),
          broadcast |-> TRUE]

\* syncChatHistory(targetFrame) from the await on, lines 291-311
syncChatHistoryResume(st, dom, snapshot, targetFrame) ==
    LET isSameSignature == snapshot.signature = st.lastSignature
        isSameLength == Len(snapshot.history) = st.lastHistoryLength
    IN  IF isSameSignature /\ isSameLength
        THEN [st |-> st, posts |-> <<>>, broadcast |-> FALSE]
        ELSE [st |-> [st EXCEPT !.lastSignature = snapshot.signature,
                                !.lastHistoryLength = Len(snapshot.history)],
              posts |-> broadcastChatPayload(dom,
                           [history |-> snapshot.history, direction |-> "incoming",
                            signature |-> snapshot.signature], targetFrame),
              broadcast |-> TRUE]

-----------------------------------------------------------------------------
(* The settings normalizer: src/index.js 16-22, 61-103, 133-137, 160-178.   *)
(* A number is kept in tenths, so that 0.2 is 2 and 24 is 240.  NaN and the *)
(* infinities are values of their own.  DEFAULT_SETTINGS lives in           *)
(* settings-utils.js, which is not among the sources: the specification     *)
(* (section 4.2) has a default for every field and the values here are      *)
(* chosen inside the ranges.                                                *)

Num(tenths) == [type |-> "number", tenths |-> tenths]
NaN == [type |-> "NaN"]
Infinity(negative) == [type |-> "Infinity", negative |-> negative]
Null == [type |-> "null"]
Bool(b) == [type |-> "boolean", val |-> b]

CAMERA_FOV_RANGE == <<400, 1000>>
MOUSE_SENSITIVITY_RANGE == <<2, 30>>
RENDER_SCALE_RANGE == <<5, 15>>
RAIN_INTENSITY_RANGE == <<0, 20>>
FOG_DENSITY_RANGE == <<2, 30>>
CLOUD_DENSITY_RANGE == <<0, 20>>
CLOUD_SPEED_RANGE == <<0, 20>>
WEATHER_PRESETS ==
    {<<"c", "l", "e", "a", "r">>, <<"f", "o", "g", "g", "y">>, <<"r", "a", "i", "n", "y">>}

DEFAULT_SETTINGS ==
    [timeOfDay |-> Num(120), weather |-> Str(<<"c", "l", "e", "a", "r">>),
     cameraFov |-> Num(750), mouseSensitivity |-> Num(10),
     enableStreaming |-> Bool(TRUE), showTypingIndicator |-> Bool(TRUE),
     enableAutoreplies |-> Bool(TRUE), shadowsEnabled |-> Bool(TRUE),
     renderScale |-> Num(10), showChatBubbles |-> Bool(TRUE),
     rainIntensity |-> Num(10), fogDensity |-> Num(10),
     cloudsEnabled |-> Bool(TRUE), cloudDensity |-> Num(10), cloudSpeed |-> Num(10)]

SettingsFields == DOMAIN DEFAULT_SETTINGS

\* Number.isFinite
IsFinite(v) == v.type = "number"

\* Number(string): the trimmed text is empty, a decimal numeral with an
\* optional sign and at most one digit after the point, "Infinity", or not a
\* number
StringToNumber(text) ==
    LET t == Trim(text)
        signed == t # <<>> /\ t[1] \in {"-", "+"}
        negative == t # <<>> /\ t[1] = "-"
        body == IF signed THEN Tail(t) ELSE t
        e == DigitsEnd(body, 1)
        whole == WholeValue(SubSeq(body, 1, e - 1))
        value == IF e > Len(body) THEN 10 * whole
                 ELSE 10 * whole + DigitValue(body[Len(body)])
        numeral == /\ body # <<>>
                   /\ e > 1
                   /\ \/ e > Len(body)
                      \/ e = Len(body) /\ body[e] = "."
                      \/ e = Len(body) - 1 /\ body[e] = "." /\ IsDigit(body[Len(body)])
    IN  IF t = <<>> THEN Num(0)
        ELSE IF body = <<"I", "n", "f", "i", "n", "i", "t", "y">> THEN Infinity(negative)
        ELSE IF ~numeral THEN NaN
        ELSE IF e = Len(body) THEN Num(IF negative THEN 0 - 10 * whole ELSE 10 * whole)
        ELSE Num(IF negative THEN 0 - value ELSE value)

\* Number(value)
ToNumber(v) ==
    CASE v.type \in {"number", "NaN", "Infinity"} -> v
      [] v.type = "string" -> StringToNumber(v.val)
      [] v.type = "boolean" -> Num(IF v.val THEN 10 ELSE 0)
      [] v.type = "null" -> Num(0)
      [] OTHER -> NaN

\* Boolean(value)
ToBoolean(v) ==
    CASE v.type = "boolean" -> v.val
      [] v.type = "number" -> v.tenths # 0
      [] v.type = "string" -> v.val # <<>>
      [] v.type \in {"Infinity", "object"} -> TRUE
      [] OTHER -> FALSE

\* value ?? fallback
Coalesce(v, fallback) == IF v.type \in {"undefined", "null"} THEN fallback ELSE v

Min(a, b) == IF a < b THEN a ELSE b

\* variant of clampTimeOfDayValue: one day is taken off a value of 24 or more
clampTimeOfDayValue_OneDayOff(value) ==
    LET numeric == ToNumber(value)
    IN  IF ~IsFinite(numeric) THEN DEFAULT_SETTINGS.timeOfDay
        ELSE IF numeric.tenths >= 240 THEN Num(numeric.tenths - 240)
        ELSE Num(Max(0, numeric.tenths))

\* variant of clampTimeOfDayValue: 24 stays 24
clampTimeOfDayValue_NoWrap(value) ==
    LET numeric == ToNumber(value)
    IN  IF ~IsFinite(numeric) THEN DEFAULT_SETTINGS.timeOfDay
        ELSE Num(Min(240, Max(0, numeric.tenths)))

\* clampTimeOfDayValue(value), lines 63-69
clampTimeOfDayValue(value) ==
    LET numeric == ToNumber(value)
        clamped == Min(240, Max(0, numeric.tenths))
    IN  IF ~IsFinite(numeric) THEN DEFAULT_SETTINGS.timeOfDay
        ELSE IF clamped = 240 THEN Num(0) ELSE Num(clamped)

\* variant of clampInRange: a number outside the range gives the fallback
clampInRange_FallbackOutside(value, range, fallback) ==
    LET numeric == ToNumber(value)
    IN  IF ~IsFinite(numeric) THEN fallback
        ELSE IF numeric.tenths < range[1] \/ numeric.tenths > range[2] THEN fallback
        ELSE numeric

\* clampInRange(value, [min, max], fallback), lines 71-75
clampInRange(value, range, fallback) ==
    LET numeric == ToNumber(value)
    IN  IF ~IsFinite(numeric) THEN fallback
        ELSE Num(Min(range[2], Max(range[1], numeric.tenths)))

\* lines 77-103
clampFovValue(value) == clampInRange(value, CAMERA_FOV_RANGE, DEFAULT_SETTINGS.cameraFov)
clampMouseSensitivity(value) ==
    clampInRange(value, MOUSE_SENSITIVITY_RANGE, DEFAULT_SETTINGS.mouseSensitivity)
clampRenderScale(value) == clampInRange(value, RENDER_SCALE_RANGE, DEFAULT_SETTINGS.renderScale)
clampRainIntensity(value) ==
    clampInRange(value, RAIN_INTENSITY_RANGE, DEFAULT_SETTINGS.rainIntensity)
clampFogDensity(value) == clampInRange(value, FOG_DENSITY_RANGE, DEFAULT_SETTINGS.fogDensity)
clampCloudDensity(value) ==
    clampInRange(value, CLOUD_DENSITY_RANGE, DEFAULT_SETTINGS.cloudDensity)
clampCloudSpeed(value) == clampInRange(value, CLOUD_SPEED_RANGE, DEFAULT_SETTINGS.cloudSpeed)

\* variant of normalizeWeatherValue: the text is compared as it is written
normalizeWeatherValue_CaseSensitive(value) ==
    IF value.type # "string" THEN DEFAULT_SETTINGS.weather
    ELSE IF value.val \in WEATHER_PRESETS THEN Str(value.val)
    ELSE DEFAULT_SETTINGS.weather

\* normalizeWeatherValue(value), lines 133-137
normalizeWeatherValue(value) ==
    IF value.type # "string" THEN DEFAULT_SETTINGS.weather
    ELSE LET normalized == ToLowerCase(value.val)
         IN  IF normalized \in WEATHER_PRESETS THEN Str(normalized)
             ELSE DEFAULT_SETTINGS.weather

\* the field of a settings object, undefined when it is not there
Field(object, name) == IF name \in DOMAIN object.val THEN object.val[name] ELSE NoValue

\* variant of normalizeAtmosphereSettings: the flags are left as they are
normalizeAtmosphereSettings_RawFlags(object) ==
    IF ~ToBoolean(object) THEN object
    ELSE LET raw(name) == Coalesce(Field(object, name), DEFAULT_SETTINGS[name])
         IN  ObjectArg(
               [name \in DOMAIN object.val \cup SettingsFields |->
                  CASE name = "timeOfDay" -> clampTimeOfDayValue(raw(name))
                    [] name = "weather" -> normalizeWeatherValue(raw(name))
                    [] name = "cameraFov" -> clampFovValue(raw(name))
                    [] name = "mouseSensitivity" -> clampMouseSensitivity(raw(name))
                    [] name = "renderScale" -> clampRenderScale(raw(name))
                    [] name = "rainIntensity" -> clampRainIntensity(raw(name))
                    [] name = "fogDensity" -> clampFogDensity(raw(name))
                    [] name = "cloudDensity" -> clampCloudDensity(raw(name))
                    [] name = "cloudSpeed" -> clampCloudSpeed(raw(name))
                    [] name \in SettingsFields -> raw(name)
                    [] OTHER -> object.val[name]])

\* normalizeAtmosphereSettings(settings), lines 160-178
normalizeAtmosphereSettings(object) ==
    IF ~ToBoolean(object) THEN object
    ELSE LET raw(name) == Coalesce(Field(object, name), DEFAULT_SETTINGS[name])
         IN  ObjectArg(
               [name \in DOMAIN object.val \cup SettingsFields |->
                  CASE name = "timeOfDay" -> clampTimeOfDayValue(raw(name))
                    [] name = "weather" -> normalizeWeatherValue(raw(name))
                    [] name = "cameraFov" -> clampFovValue(raw(name))
                    [] name = "mouseSensitivity" -> clampMouseSensitivity(raw(name))
                    [] name = "renderScale" -> clampRenderScale(raw(name))
                    [] name = "rainIntensity" -> clampRainIntensity(raw(name))
                    [] name = "fogDensity" -> clampFogDensity(raw(name))
                    [] name = "cloudDensity" -> clampCloudDensity(raw(name))
                    [] name = "cloudSpeed" -> clampCloudSpeed(raw(name))
                    [] name \in SettingsFields -> Bool(ToBoolean(raw(name)))
                    [] OTHER -> object.val[name]])

-----------------------------------------------------------------------------
(* Initial state: the module-level state of index.js and message-security.js *)
(* when the page is ready, before initializeChatIntegration runs            *)

\* what the browser holds before anything is set up, and after one set-up
NothingRegistered == [chatPollTimers |-> 0, statePollTimers |-> 0, messageListeners |-> 0]
OneOfEach == [chatPollTimers |-> 1, statePollTimers |-> 1, messageListeners |-> 1]

NoHistory == [none |-> TRUE]

Init ==
    /\ trackedFrameOrigins = <<>>
    /\ cachedWorldState = Undefined
    /\ atmospherePrompt = resolveAtmosphereSnapshot(Undefined)
    /\ settings = [enableStreaming |-> TRUE, showTypingIndicator |-> TRUE,
                   enableAutoreplies |-> TRUE]
    /\ iframes = <<>>
    /\ messageListener = FALSE
    /\ chat = <<>>
    /\ chatSyncState = ResetSyncState
    /\ pendingSyncs = <<>>
    /\ chatIntegrationHandle = FALSE
    /\ chatPollTimer = FALSE
    /\ statePollTimer = FALSE
    /\ out = <<>>
    /\ hostOut = NoHostOut
    /\ threw = FALSE
    /\ typingShown = FALSE
    /\ throwingFrames = {}
    /\ browser = NothingRegistered
    /\ lastOp = NoOp
    /\ lastHistory = NoHistory
    /\ lastSyncDone = NoHistory
    /\ streamLog = <<>>

\* a run of syncChatHistory suspended at its await, before the snapshot is read
StartedSync(targetFrame, by) ==
    [phase |-> "started", target |-> targetFrame, by |-> by]

\* the history ghost after the host log changed
LogChanged(h) == IF h = NoHistory THEN h ELSE [h EXCEPT !.changed = TRUE]

RemoveAt(seq, i) == SubSeq(seq, 1, i - 1) \o SubSeq(seq, i + 1, Len(seq))

-----------------------------------------------------------------------------
(* Lifecycle: src/index.js 542-644 and 932-1008 *)

\* one or none, for a timer id or a listener that is or is not there
Count(present) == IF present THEN 1 ELSE 0

\* lines 545 and 562-571: addEventListener does not add a listener that is
\* registered already; a timer whose id is stored is cleared before
\* setInterval starts the next
BrowserAfterInitialize ==
    [messageListeners |-> browser.messageListeners + 1 - Count(messageListener),
     chatPollTimers |-> browser.chatPollTimers - Count(chatPollTimer) + 1,
     statePollTimers |-> browser.statePollTimers - Count(statePollTimer) + 1]

\* variant of initializeChatIntegration: the handle is not looked at, so that
\* every call sets the integration up
InitializeChatIntegration_Unguarded ==
    /\ Len(pendingSyncs) < MaxPending
    /\ lastOp' = [name |-> "initializeChatIntegration", again |-> chatIntegrationHandle]
    /\ messageListener' = TRUE
    /\ chatIntegrationHandle' = TRUE
    /\ chatPollTimer' = TRUE
    /\ statePollTimer' = TRUE
    /\ browser' = BrowserAfterInitialize
    /\ pendingSyncs' = Append(pendingSyncs, StartedSync(NULL, "other"))
    /\ trackedFrameOrigins' = trackRenderedWorldEngineFrames(trackedFrameOrigins, iframes)
    /\ out' = PollPosts(iframes)
    /\ hostOut' = NoHostOut
    /\ threw' = FALSE
    /\ lastSyncDone' = NoHistory
    /\ UNCHANGED <<cachedWorldState, atmospherePrompt, settings, iframes, chat,
                   chatSyncState, lastHistory, streamLog>>
    /\ typingShown' = TypingAfter(typingShown, out')
    /\ UNCHANGED throwingFrames

\* initializeChatIntegration()
InitializeChatIntegration ==
    /\ Len(pendingSyncs) < MaxPending
    /\ lastOp' = [name |-> "initializeChatIntegration", again |-> chatIntegrationHandle]
    /\ IF chatIntegrationHandle
       THEN /\ out' = <<>>
            /\ UNCHANGED <<trackedFrameOrigins, messageListener, chatIntegrationHandle,
                           chatPollTimer, statePollTimer, pendingSyncs, browser>>
       ELSE /\ messageListener' = TRUE
            /\ chatIntegrationHandle' = TRUE
            /\ chatPollTimer' = TRUE
            /\ statePollTimer' = TRUE
            /\ browser' = BrowserAfterInitialize
            /\ pendingSyncs' = Append(pendingSyncs, StartedSync(NULL, "other"))
            /\ trackedFrameOrigins' = trackRenderedWorldEngineFrames(trackedFrameOrigins, iframes)
            /\ out' = PollPosts(iframes)
    /\ hostOut' = NoHostOut
    /\ threw' = FALSE
    /\ lastSyncDone' = NoHistory
    /\ UNCHANGED <<cachedWorldState, atmospherePrompt, settings, iframes, chat,
                   chatSyncState, lastHistory, streamLog>>
    /\ typingShown' = TypingAfter(typingShown, out')
    /\ UNCHANGED throwingFrames

\* lines 627-643: clearInterval for a timer whose id is stored,
\* removeEventListener for the listener
BrowserAfterTeardown ==
    [messageListeners |-> browser.messageListeners - Count(messageListener),
     chatPollTimers |-> browser.chatPollTimers - Count(chatPollTimer),
     statePollTimers |-> browser.statePollTimers - Count(statePollTimer)]

\* variant of teardownChatIntegration: the runs of syncChatHistory in flight
\* are cancelled
TeardownChatIntegration_CancelsBuilds ==
    LET r == resetChatSyncState(chatSyncState, settings, iframes)
    IN  /\ chatPollTimer' = FALSE
        /\ statePollTimer' = FALSE
        /\ chatIntegrationHandle' = FALSE
        /\ messageListener' = FALSE
        /\ chatSyncState' = r.st
        /\ out' = r.posts
        /\ hostOut' = NoHostOut
        /\ threw' = FALSE
        /\ lastOp' = [name |-> "teardownChatIntegration",
                      active |-> chatSyncState.streamingActive]
        /\ lastHistory' = NoHistory
        /\ lastSyncDone' = NoHistory
        /\ streamLog' = <<>>
        /\ pendingSyncs' = <<>>
        /\ UNCHANGED <<trustVars, settings, iframes, chat>>
        /\ typingShown' = TypingAfter(typingShown, out')
        /\ browser' = BrowserAfterTeardown
        /\ UNCHANGED throwingFrames

\* teardownChatIntegration()
TeardownChatIntegration ==
    LET r == resetChatSyncState(chatSyncState, settings, iframes)
    IN  /\ chatPollTimer' = FALSE
        /\ statePollTimer' = FALSE
        /\ chatIntegrationHandle' = FALSE
        /\ messageListener' = FALSE
        /\ chatSyncState' = r.st
        /\ out' = r.posts
        /\ hostOut' = NoHostOut
        /\ threw' = FALSE
        /\ lastOp' = [name |-> "teardownChatIntegration",
                      active |-> chatSyncState.streamingActive]
        /\ lastHistory' = NoHistory
        /\ lastSyncDone' = NoHistory
        /\ streamLog' = <<>>
        /\ UNCHANGED <<trustVars, settings, iframes, chat, pendingSyncs>>
        /\ typingShown' = TypingAfter(typingShown, out')
        /\ browser' = BrowserAfterTeardown
        /\ UNCHANGED throwingFrames

\* setupSettingsPanel(root): the panel's iframe is rendered, its src set to the
\* view URL and the frame tracked (lines 935-938, 997-1008, 1228)
SetupSettingsPanel ==
    /\ "panel" \notin DOMAIN iframes
    /\ iframes' = [el \in DOMAIN iframes \cup {"panel"} |->
                     IF el = "panel" THEN ViewSrc ELSE iframes[el]]
    /\ trackedFrameOrigins' = trackWorldEngineFrame(trackedFrameOrigins, iframes', "panel")
    /\ atmospherePrompt' = resolveAtmosphereSnapshot(cachedWorldState)
    /\ out' = <<>>
    /\ hostOut' = NoHostOut
    /\ threw' = FALSE
    /\ lastOp' = [name |-> "setupSettingsPanel"]
    /\ lastSyncDone' = NoHistory
    /\ UNCHANGED <<cachedWorldState, settings, messageListener, chat, chatSyncState,
                   pendingSyncs, chatIntegrationHandle, chatPollTimer, statePollTimer,
                   lastHistory, streamLog>>
    /\ typingShown' = TypingAfter(typingShown, out')
    /\ UNCHANGED <<throwingFrames, browser>>

\* pollWorldState() on the state-poll timer, lines 571 and 606-624
StatePollTick ==
    /\ statePollTimer
    /\ trackedFrameOrigins' = trackRenderedWorldEngineFrames(trackedFrameOrigins, iframes)
    /\ out' = PollPosts(iframes)
    /\ hostOut' = NoHostOut
    /\ threw' = FALSE
    /\ lastOp' = [name |-> "pollWorldState"]
    /\ lastSyncDone' = NoHistory
    /\ UNCHANGED <<cachedWorldState, atmospherePrompt, settings, iframes, messageListener,
                   chat, chatSyncState, pendingSyncs, chatIntegrationHandle, chatPollTimer,
                   statePollTimer, lastHistory, streamLog>>
    /\ typingShown' = TypingAfter(typingShown, out')
    /\ UNCHANGED <<throwingFrames, browser>>

-----------------------------------------------------------------------------
(* The host log: the host appends a message or switches to an empty chat *)

HostAppend(m) ==
    /\ Len(chat) < MaxChat
    /\ chat' = Append(chat, m)
    /\ lastHistory' = LogChanged(lastHistory)
    /\ lastSyncDone' = NoHistory
    /\ lastOp' = [name |-> "host"]
    /\ out' = <<>>
    /\ hostOut' = NoHostOut
    /\ threw' = FALSE
    /\ UNCHANGED <<trustVars, settings, iframes, timerVars, chatSyncState, pendingSyncs,
                   streamLog>>
    /\ typingShown' = TypingAfter(typingShown, out')
    /\ UNCHANGED <<throwingFrames, browser>>

HostClear ==
    /\ chat # <<>>
    /\ chat' = <<>>
    /\ lastHistory' = LogChanged(lastHistory)
    /\ lastSyncDone' = NoHistory
    /\ lastOp' = [name |-> "host"]
    /\ out' = <<>>
    /\ hostOut' = NoHostOut
    /\ threw' = FALSE
    /\ UNCHANGED <<trustVars, settings, iframes, timerVars, chatSyncState, pendingSyncs,
                   streamLog>>
    /\ typingShown' = TypingAfter(typingShown, out')
    /\ UNCHANGED <<throwingFrames, browser>>

-----------------------------------------------------------------------------
(* The settings checkboxes: src/index.js 766-782 *)

SetEnableStreaming(b) ==
    /\ settings.enableStreaming # b
    /\ settings' = [settings EXCEPT !.enableStreaming = b]
    /\ lastOp' = [name |-> "settings"]
    /\ lastSyncDone' = NoHistory
    /\ out' = <<>>
    /\ hostOut' = NoHostOut
    /\ threw' = FALSE
    /\ UNCHANGED <<trustVars, iframes, timerVars, chat, chatSyncState, pendingSyncs,
                   lastHistory, streamLog>>
    /\ typingShown' = TypingAfter(typingShown, out')
    /\ UNCHANGED <<throwingFrames, browser>>

SetShowTypingIndicator(b) ==
    /\ settings.showTypingIndicator # b
    /\ settings' = [settings EXCEPT !.showTypingIndicator = b]
    /\ lastOp' = [name |-> "settings"]
    /\ lastSyncDone' = NoHistory
    /\ out' = <<>>
    /\ hostOut' = NoHostOut
    /\ threw' = FALSE
    /\ UNCHANGED <<trustVars, iframes, timerVars, chat, chatSyncState, pendingSyncs,
                   lastHistory, streamLog>>
    /\ typingShown' = TypingAfter(typingShown, out')
    /\ UNCHANGED <<throwingFrames, browser>>

SetEnableAutoreplies(b) ==
    /\ settings.enableAutoreplies # b
    /\ settings' = [settings EXCEPT !.enableAutoreplies = b]
    /\ lastOp' = [name |-> "settings"]
    /\ lastSyncDone' = NoHistory
    /\ out' = <<>>
    /\ hostOut' = NoHostOut
    /\ threw' = FALSE
    /\ UNCHANGED <<trustVars, iframes, timerVars, chat, chatSyncState, pendingSyncs,
                   lastHistory, streamLog>>
    /\ typingShown' = TypingAfter(typingShown, out')
    /\ UNCHANGED <<throwingFrames, browser>>

-----------------------------------------------------------------------------
(* syncChatHistory: src/index.js 282-312, 555-566 *)

\* a call of syncChatHistory(targetFrame) runs to its await, while fewer
\* than cap runs are suspended there
BeginSyncWithin(cap, targetFrame, by) ==
    /\ Len(pendingSyncs) < cap
    /\ pendingSyncs' = Append(pendingSyncs, StartedSync(targetFrame, by))

BeginSync(targetFrame, by) == BeginSyncWithin(MaxPending, targetFrame, by)

\* the chat-poll timer fires, line 565
ChatPollTickWithin(cap) ==
    /\ chatPollTimer
    /\ BeginSyncWithin(cap, NULL, "poll")
    /\ lastOp' = [name |-> "chatPollTick"]
    /\ out' = <<>>
    /\ hostOut' = NoHostOut
    /\ threw' = FALSE
    /\ UNCHANGED <<trustVars, settings, iframes, timerVars, chat, chatSyncState, syncGhost>>
    /\ typingShown' = TypingAfter(typingShown, out')
    /\ UNCHANGED <<throwingFrames, browser>>

ChatPollTick == ChatPollTickWithin(MaxPending)

\* buildHistorySnapshot reads the host log
SyncBuild(i) ==
    /\ i \in 1..Len(pendingSyncs)
    /\ pendingSyncs[i].phase = "started"
    /\ pendingSyncs' =
          [pendingSyncs EXCEPT ![i] =
              [phase |-> "built", target |-> pendingSyncs[i].target, by |-> pendingSyncs[i].by,
               snapshot |-> buildHistorySnapshot(chat, CHAT_SYNC_HISTORY_LIMIT, HostMaxContext)]]
    /\ lastOp' = [name |-> "buildHistorySnapshot"]
    /\ out' = <<>>
    /\ hostOut' = NoHostOut
    /\ threw' = FALSE
    /\ UNCHANGED <<trustVars, settings, iframes, timerVars, chat, chatSyncState, syncGhost>>
    /\ typingShown' = TypingAfter(typingShown, out')
    /\ UNCHANGED <<throwingFrames, browser>>

\* the ghost value of a snapshot: its signature and length
SnapshotKey(snapshot) ==
    [signature |-> snapshot.signature, length |-> Len(snapshot.history), changed |-> FALSE]

\* the await returns and the run goes on to its end
SyncComplete(i) ==
    /\ i \in 1..Len(pendingSyncs)
    /\ pendingSyncs[i].phase = "built"
    /\ LET run == pendingSyncs[i]
           r == syncChatHistoryResume(chatSyncState, iframes, run.snapshot, run.target)
           key == SnapshotKey(run.snapshot)
       IN  /\ chatSyncState' = r.st
           /\ out' = r.posts
           /\ pendingSyncs' = RemoveAt(pendingSyncs, i)
           /\ lastOp' = [name |-> "syncChatHistory", by |-> run.by, target |-> run.target,
                         broadcast |-> r.broadcast,
                         repeat |-> lastSyncDone = key,
                         unchangedLog |-> lastHistory = key]
           /\ lastHistory' = IF r.broadcast THEN key ELSE lastHistory
           /\ lastSyncDone' = key
    /\ hostOut' = NoHostOut
    /\ threw' = FALSE
    /\ UNCHANGED <<trustVars, settings, iframes, timerVars, chat, streamLog>>
    /\ typingShown' = TypingAfter(typingShown, out')
    /\ UNCHANGED <<throwingFrames, browser>>

\* onChatChanged, line 555
OnChatChanged ==
    /\ chatIntegrationHandle
    /\ BeginSync(NULL, "resync")
    /\ lastOp' = [name |-> "onChatChanged"]
    /\ out' = <<>>
    /\ hostOut' = NoHostOut
    /\ threw' = FALSE
    /\ lastSyncDone' = NoHistory
    /\ UNCHANGED <<trustVars, settings, iframes, timerVars, chat, chatSyncState,
                   lastHistory, streamLog>>
    /\ typingShown' = TypingAfter(typingShown, out')
    /\ UNCHANGED <<throwingFrames, browser>>

\* onHistoryChanged, lines 556-559
OnHistoryChanged ==
    /\ chatIntegrationHandle
    /\ BeginSync(NULL, "resync")
    /\ LET r == resetChatSyncState(chatSyncState, settings, iframes)
       IN  /\ chatSyncState' = r.st
           /\ out' = r.posts
    /\ lastOp' = [name |-> "onHistoryChanged"]
    /\ hostOut' = NoHostOut
    /\ threw' = FALSE
    /\ lastHistory' = NoHistory
    /\ lastSyncDone' = NoHistory
    /\ streamLog' = <<>>
    /\ UNCHANGED <<trustVars, settings, iframes, timerVars, chat>>
    /\ typingShown' = TypingAfter(typingShown, out')
    /\ UNCHANGED <<throwingFrames, browser>>

-----------------------------------------------------------------------------
(* Host events of the streaming aggregator: src/index.js 322-433, 549-554 *)

\* generation-started or stream-started
HandleStreamStart ==
    /\ chatIntegrationHandle
    /\ LET r == handleStreamStart(chatSyncState, settings, iframes)
       IN  /\ chatSyncState' = r.st
           /\ out' = r.posts
    /\ streamLog' = <<>>
    /\ lastOp' = [name |-> "handleStreamStart", buffer |-> chatSyncState.streamingBuffer]
    /\ lastSyncDone' = NoHistory
    /\ hostOut' = NoHostOut
    /\ threw' = FALSE
    /\ UNCHANGED <<trustVars, settings, iframes, timerVars, chat, pendingSyncs, lastHistory>>
    /\ typingShown' = TypingAfter(typingShown, out')
    /\ UNCHANGED <<throwingFrames, browser>>

\* stream-token
HandleStreamToken(args) ==
    /\ chatIntegrationHandle
    /\ LET r == handleStreamToken(chatSyncState, chat, iframes, args)
       IN  /\ r.appended => Len(streamLog) < MaxTokens
           /\ chatSyncState' = r.st
           /\ out' = r.posts
           /\ streamLog' =
                 IF r.appended
                 THEN Append(streamLog,
                             [token |-> resolveTokenText(args),
                              entry |-> TruthyObject(getLatestAssistantEntry(chat)),
                              sent |-> r.posts])
                 ELSE streamLog
           /\ lastOp' = [name |-> "handleStreamToken", appended |-> r.appended,
                         empty |-> resolveTokenText(args) = <<>>]
    /\ lastSyncDone' = NoHistory
    /\ hostOut' = NoHostOut
    /\ threw' = FALSE
    /\ UNCHANGED <<trustVars, settings, iframes, timerVars, chat, pendingSyncs, lastHistory>>
    /\ typingShown' = TypingAfter(typingShown, out')
    /\ UNCHANGED <<throwingFrames, browser>>

\* message-finished
HandleMessageFinished ==
    /\ chatIntegrationHandle
    /\ BeginSync(NULL, "other")
    /\ LET r == handleMessageFinished(chatSyncState, settings, chat, iframes)
       IN  /\ chatSyncState' = r.st
           /\ out' = r.posts
    /\ streamLog' = <<>>
    /\ lastOp' = [name |-> "handleMessageFinished",
                  buffer |-> chatSyncState.streamingBuffer]
    /\ lastSyncDone' = NoHistory
    /\ hostOut' = NoHostOut
    /\ threw' = FALSE
    /\ UNCHANGED <<trustVars, settings, iframes, timerVars, chat, lastHistory>>
    /\ typingShown' = TypingAfter(typingShown, out')
    /\ UNCHANGED <<throwingFrames, browser>>

\* message-received
HandleMessageReceivedEvent(messageId) ==
    /\ chatIntegrationHandle
    /\ LET r == handleMessageReceivedEvent(chatSyncState, chat, iframes, messageId)
       IN  /\ chatSyncState' = r.st
           /\ out' = r.posts
    /\ lastOp' = [name |-> "handleMessageReceivedEvent"]
    /\ lastSyncDone' = NoHistory
    /\ hostOut' = NoHostOut
    /\ threw' = FALSE
    /\ UNCHANGED <<trustVars, settings, iframes, timerVars, chat, pendingSyncs,
                   lastHistory, streamLog>>
    /\ typingShown' = TypingAfter(typingShown, out')
    /\ UNCHANGED <<throwingFrames, browser>>

\* message-sent: handleMessageSentEvent only logs, lines 421-433
HandleMessageSentEvent ==
    /\ chatIntegrationHandle
    /\ lastOp' = [name |-> "handleMessageSentEvent"]
    /\ lastSyncDone' = NoHistory
    /\ out' = <<>>
    /\ hostOut' = NoHostOut
    /\ threw' = FALSE
    /\ UNCHANGED <<trustVars, settings, iframes, timerVars, chat, chatSyncState,
                   pendingSyncs, lastHistory, streamLog>>
    /\ typingShown' = TypingAfter(typingShown, out')
    /\ UNCHANGED <<throwingFrames, browser>>

-----------------------------------------------------------------------------
(* The state when the page is ready: the module-level state after the     *)
(* ready callback of lines 1251-1256 has run initializeChatIntegration     *)

InitReady ==
    /\ trackedFrameOrigins = <<>>
    /\ cachedWorldState = Undefined
    /\ atmospherePrompt = resolveAtmosphereSnapshot(Undefined)
    /\ settings = [enableStreaming |-> TRUE, showTypingIndicator |-> TRUE,
                   enableAutoreplies |-> TRUE]
    /\ iframes = <<>>
    /\ messageListener = TRUE
    /\ chat = <<>>
    /\ chatSyncState = ResetSyncState
    /\ pendingSyncs = <<StartedSync(NULL, "other")>>
    /\ chatIntegrationHandle = TRUE
    /\ chatPollTimer = TRUE
    /\ statePollTimer = TRUE
    /\ out = <<>>
    /\ hostOut = NoHostOut
    /\ threw = FALSE
    /\ typingShown = FALSE
    /\ throwingFrames = {}
    /\ browser = OneOfEach
    /\ lastOp = [name |-> "initializeChatIntegration", again |-> FALSE]
    /\ lastHistory = NoHistory
    /\ lastSyncDone = NoHistory
    /\ streamLog = <<>>

\* the same when the settings root was already in the page, so that
\* setupSettingsPanel ran before initializeChatIntegration (lines 904-907, 1253-1255)
InitReadyPanel ==
    /\ iframes = [el \in {"panel"} |-> ViewSrc]
    /\ trackedFrameOrigins = trackRenderedWorldEngineFrames(<<>>, iframes)
    /\ cachedWorldState = Undefined
    /\ atmospherePrompt = resolveAtmosphereSnapshot(Undefined)
    /\ settings = [enableStreaming |-> TRUE, showTypingIndicator |-> TRUE,
                   enableAutoreplies |-> TRUE]
    /\ messageListener = TRUE
    /\ chat = <<>>
    /\ chatSyncState = ResetSyncState
    /\ pendingSyncs = <<StartedSync(NULL, "other")>>
    /\ chatIntegrationHandle = TRUE
    /\ chatPollTimer = TRUE
    /\ statePollTimer = TRUE
    /\ out = PollPosts(iframes)
    /\ hostOut = NoHostOut
    /\ threw = FALSE
    /\ typingShown = FALSE
    /\ throwingFrames = {}
    /\ browser = OneOfEach
    /\ lastOp = [name |-> "initializeChatIntegration", again |-> FALSE]
    /\ lastHistory = NoHistory
    /\ lastSyncDone = NoHistory
    /\ streamLog = <<>>

-----------------------------------------------------------------------------
(* Spec: the chat synchronisation *)

Next ==
    \/ SetupSettingsPanel
    \/ \E m \in HostMessages : HostAppend(m)
    \/ HostClear
    \/ ChatPollTick
    \/ \E i \in 1..MaxPending : SyncBuild(i)
    \/ \E i \in 1..MaxPending : SyncComplete(i)
    \/ OnChatChanged
    \/ OnHistoryChanged
    \/ HandleStreamStart
    \/ HandleMessageFinished
    \/ \E id \in MessageIds : HandleMessageReceivedEvent(id)
    \/ HandleMessageSentEvent

Spec == InitReady /\ [][Next]_vars

-----------------------------------------------------------------------------
(* SpecStream: the streaming aggregator *)

NextStream ==
    \/ \E m \in HostMessages : HostAppend(m)
    \/ HostClear
    \/ \E b \in BOOLEAN : SetEnableStreaming(b)
    \/ \E i \in 1..MaxPending : SyncBuild(i)
    \/ \E i \in 1..MaxPending : SyncComplete(i)
    \/ HandleStreamStart
    \/ \E args \in TokenArgs : HandleStreamToken(args)
    \/ HandleMessageFinished

SpecStream == InitReadyPanel /\ [][NextStream]_vars

-----------------------------------------------------------------------------
(* SpecTrust: the trust registry and the inbound message listener *)

\* the page, a template or a script gives an iframe a src: the popup is
\* rendered (lines 688-701), or the attribute of a rendered iframe changes
DomSetIframe(iframe, src) ==
    /\ IF iframe \in DOMAIN iframes THEN iframes[iframe] # src ELSE TRUE
    /\ iframes' = [el \in DOMAIN iframes \cup {iframe} |->
                     IF el = iframe THEN src ELSE iframes[el]]
    /\ lastOp' = [name |-> "dom"]
    /\ lastSyncDone' = NoHistory
    /\ out' = <<>>
    /\ hostOut' = NoHostOut
    /\ threw' = FALSE
    /\ UNCHANGED <<trustVars, settings, timerVars, chat, chatSyncState, pendingSyncs,
                   lastHistory, streamLog>>
    /\ typingShown' = TypingAfter(typingShown, out')
    /\ UNCHANGED <<throwingFrames, browser>>

\* updateIframeSrc / beginIframeLoadWatch(true): the src becomes the view URL
\* and the frame is tracked again (lines 726-729, 1006-1007)
UpdateIframeSrc(iframe) ==
    /\ iframe \in DOMAIN iframes
    /\ iframes' = [iframes EXCEPT ![iframe] = ViewSrc]
    /\ trackedFrameOrigins' = trackWorldEngineFrame(trackedFrameOrigins, iframes', iframe)
    /\ lastOp' = [name |-> "updateIframeSrc"]
    /\ lastSyncDone' = NoHistory
    /\ out' = <<>>
    /\ hostOut' = NoHostOut
    /\ threw' = FALSE
    /\ UNCHANGED <<cachedWorldState, atmospherePrompt, settings, timerVars, chat,
                   chatSyncState, pendingSyncs, lastHistory, streamLog>>
    /\ typingShown' = TypingAfter(typingShown, out')
    /\ UNCHANGED <<throwingFrames, browser>>

\* what the claims distinguish in an inbound event, from the event and the
\* state before the handler ran
SenderRecord(map, event) ==
    IF event.source \in DOMAIN map THEN map[event.source] ELSE NoFrameInfo

EventUntrusted(map, event) ==
    \/ SenderRecord(map, event) = NoFrameInfo
    \/ /\ SenderRecord(map, event).origin \notin {NULL, ""}
       /\ event.origin \notin {NULL, ""}
       /\ SenderRecord(map, event).origin # event.origin

EventIgnored(map, event) ==
    \/ event.data = Undefined
    \/ event.data.source # EXTENSION_NAME
    \/ EventUntrusted(map, event)

EventKind(map, event) ==
    IF EventIgnored(map, event) THEN "ignored" ELSE event.data.type

EventChatText(event) ==
    IF event.data = Undefined \/ event.data.payload = Undefined THEN <<>>
    ELSE IF "text" \notin DOMAIN event.data.payload THEN <<>>
    ELSE IF event.data.payload.text.type # "string" THEN <<>>
    ELSE Trim(event.data.payload.text.val)

EventOutgoing(event) ==
    /\ event.data # Undefined
    /\ event.data.payload # Undefined
    /\ "direction" \in DOMAIN event.data.payload
    /\ event.data.payload.direction = "outgoing"

\* the step's record of the event it handled
EventDigest(map, s, event) ==
    IF EventKind(map, event) = "world-engine-chat"
    THEN [name |-> "handleFrameChatMessage", kind |-> "world-engine-chat",
          text |-> EventChatText(event), outgoing |-> EventOutgoing(event),
          autoreplies |-> s.enableAutoreplies]
    ELSE IF EventKind(map, event) = "world-engine-interaction"
    THEN [name |-> "handleFrameChatMessage", kind |-> "world-engine-interaction",
          payload |-> event.data.payload]
    ELSE [name |-> "handleFrameChatMessage", kind |-> EventKind(map, event)]

NoEnv == [send_message |-> FALSE, sendMessage |-> FALSE, textarea |-> FALSE,
          sendButton |-> FALSE, form |-> FALSE]

\* a message event reaches the listener of line 545
HandleFrameChatMessage(event) ==
    /\ messageListener
    /\ LET probe == handleFrameChatMessage(trackedFrameOrigins, cachedWorldState,
                                           atmospherePrompt, settings, event, NoEnv)
       IN  \E env \in (IF probe.hostOut.pushed # <<>> /\ ~probe.threw THEN HostEnvs
                       ELSE {NoEnv}) :
              LET r == handleFrameChatMessage(trackedFrameOrigins, cachedWorldState,
                                              atmospherePrompt, settings, event, env)
              IN  /\ cachedWorldState' = r.cached
                  /\ atmospherePrompt' = r.prompt
                  /\ hostOut' = r.hostOut
                  /\ threw' = r.threw
    /\ lastOp' = EventDigest(trackedFrameOrigins, settings, event)
    /\ lastSyncDone' = NoHistory
    /\ out' = <<>>
    /\ UNCHANGED <<trackedFrameOrigins, settings, iframes, timerVars, chat, chatSyncState,
                   pendingSyncs, lastHistory, streamLog>>
    /\ typingShown' = TypingAfter(typingShown, out')
    /\ UNCHANGED <<throwingFrames, browser>>

NextTrust ==
    \/ InitializeChatIntegration
    \/ SetupSettingsPanel
    \/ \E src \in IframeSrcs : DomSetIframe("popup", src)
    \/ \E el \in IframeElements : UpdateIframeSrc(el)
    \/ StatePollTick
    \/ \E b \in BOOLEAN : SetEnableAutoreplies(b)
    \/ HandleStreamStart
    \/ \E event \in InboundEvents : HandleFrameChatMessage(event)

SpecTrust == Init /\ [][NextTrust]_vars

-----------------------------------------------------------------------------
(* SpecHost: pushMessageToSillyTavern is called with a text on every kind   *)
(* of host page, after the panel frame has reported its state               *)

\* every combination of what the page can offer the send pathway
HostPages ==
    [send_message : BOOLEAN, sendMessage : BOOLEAN, textarea : BOOLEAN,
     sendButton : BOOLEAN, form : BOOLEAN]

\* the texts handed to pushMessageToSillyTavern
ForwardedTexts == {<<>>, <<"h", "i">>, AvatarTouchText}

\* a world-engine-state message of the tracked panel frame
PanelStateEvent(payload) ==
    [source |-> ContentWindow("panel"), origin |-> UrlOrigin(ViewSrc),
     data |-> [source |-> EXTENSION_NAME, type |-> "world-engine-state", payload |-> payload]]

\* pushMessageToSillyTavern(text) is called, lines 470-507
PushMessageToSillyTavern(text, env) ==
    /\ LET r == pushMessageToSillyTavern(cachedWorldState, env, text)
       IN  /\ hostOut' = r.hostOut
           /\ threw' = r.threw
    /\ lastOp' = [name |-> "pushMessageToSillyTavern", text |-> text, env |-> env]
    /\ lastSyncDone' = NoHistory
    /\ out' = <<>>
    /\ UNCHANGED <<trustVars, settings, iframes, timerVars, chat, chatSyncState,
                   pendingSyncs, lastHistory, streamLog>>
    /\ typingShown' = TypingAfter(typingShown, out')
    /\ UNCHANGED <<throwingFrames, browser>>

NextHost ==
    \/ \E payload \in {StateFull, StatePartial, Undefined} :
          HandleFrameChatMessage(PanelStateEvent(payload))
    \/ \E text \in ForwardedTexts, env \in HostPages : PushMessageToSillyTavern(text, env)

SpecHost == InitReadyPanel /\ [][NextHost]_vars

-----------------------------------------------------------------------------
(* SpecLoad: the frames load and reload while the chat is synchronised.     *)
(* sendSettingsToFrame lives in settings-utils.js, which is not among the   *)
(* sources: it posts the settings payload of section 5 of the               *)
(* specification to the frame.                                              *)

\* the load event of an iframe, lines 732-739 and 1208-1214
IframeLoad(iframe) ==
    /\ iframe \in DOMAIN iframes
    /\ trackedFrameOrigins' = trackWorldEngineFrame(trackedFrameOrigins, iframes, iframe)
    /\ out' = <<[to |-> ContentWindow(iframe), source |-> EXTENSION_NAME,
                 type |-> "world-engine-settings", payload |-> settings]>>
    /\ BeginSync(ContentWindow(iframe), "load")
    /\ lastOp' = [name |-> "iframeLoad", frame |-> ContentWindow(iframe)]
    /\ hostOut' = NoHostOut
    /\ threw' = FALSE
    /\ UNCHANGED <<cachedWorldState, atmospherePrompt, settings, iframes, timerVars, chat,
                   chatSyncState, syncGhost>>
    /\ typingShown' = TypingAfter(typingShown, out')
    /\ UNCHANGED <<throwingFrames, browser>>

NextLoad ==
    \/ DomSetIframe("popup", ViewSrc)
    \/ \E iframe \in IframeElements : IframeLoad(iframe)
    \/ \E m \in HostMessages : HostAppend(m)
    \/ ChatPollTick
    \/ \E i \in 1..MaxPending : SyncBuild(i)
    \/ \E i \in 1..MaxPending : SyncComplete(i)

SpecLoad == InitReadyPanel /\ [][NextLoad]_vars

-----------------------------------------------------------------------------
(* SpecOverlap: runs of syncChatHistory overlap while the host log changes. *)
(* setInterval keeps firing the chat-poll timer and every await of          *)
(* buildHistorySnapshot returns, which the fairness conditions state.       *)

MaxOverlap == 2

NextOverlap ==
    \/ \E m \in HostMessages : HostAppend(m)
    \/ HostClear
    \/ ChatPollTickWithin(MaxOverlap)
    \/ \E i \in 1..MaxOverlap : SyncBuild(i)
    \/ \E i \in 1..MaxOverlap : SyncComplete(i)

SpecOverlap ==
    /\ InitReadyPanel
    /\ [][NextOverlap]_vars
    /\ WF_vars(ChatPollTickWithin(MaxOverlap))
    /\ \A i \in 1..MaxOverlap : WF_vars(SyncBuild(i)) /\ WF_vars(SyncComplete(i))

-----------------------------------------------------------------------------
(* SpecRegistry: message-security.js on its own, its two exports called   *)
(* with every argument of the bounded sets                                 *)

\* rememberFrameOrigin(frameWindow, origin, iframe) is called
RememberFrameOrigin(frameWindow, origin, iframe) ==
    /\ trackedFrameOrigins' = rememberFrameOrigin(trackedFrameOrigins, frameWindow, origin, iframe)
    /\ lastOp' = [name |-> "rememberFrameOrigin", frameWindow |-> frameWindow,
                  origin |-> origin, iframe |-> iframe,
                  previous |-> TrackedGet(trackedFrameOrigins, frameWindow)]
    /\ UNCHANGED <<cachedWorldState, atmospherePrompt, settings, iframes, timerVars, chat,
                   chatSyncState, pendingSyncs, out, hostOut, threw, syncGhost>>
    /\ typingShown' = TypingAfter(typingShown, out')
    /\ UNCHANGED <<throwingFrames, browser>>

\* the events resolveTrackedFrame is asked about: it reads source and origin only
ResolveEvents == {event \in InboundEvents : event.data = Undefined}

\* resolveTrackedFrame(event) is called
ResolveTrackedFrame(event) ==
    /\ lastOp' = [name |-> "resolveTrackedFrame", event |-> event,
                  result |-> resolveTrackedFrame(trackedFrameOrigins, event)]
    /\ UNCHANGED <<trustVars, settings, iframes, timerVars, chat, chatSyncState,
                   pendingSyncs, out, hostOut, threw, syncGhost>>
    /\ typingShown' = TypingAfter(typingShown, out')
    /\ UNCHANGED <<throwingFrames, browser>>

NextRegistry ==
    \/ \E frameWindow \in FrameWindows \cup {NULL}, origin \in Origins \cup {NULL},
          iframe \in IframeElements \cup {NULL} :
            RememberFrameOrigin(frameWindow, origin, iframe)
    \/ \E event \in ResolveEvents : ResolveTrackedFrame(event)

SpecRegistry == Init /\ [][NextRegistry]_vars

-----------------------------------------------------------------------------
(* SpecCommands: checkForWorldCommands called with the texts below, while  *)
(* the frames come and go                                                   *)

\* the texts: arg is the argument of the call; weather and time are what is
\* written in the text, the value of the first /weather directive that names
\* one of the three weathers and the number after the first /time directive,
\* << >> where the text has none; repeated marks a directive written twice
TextWeatherInSentence ==
    [arg |-> Str(<<"T", "h", "e", " ", "w", "e", "a", "t", "h", "e", "r", " ", "i", "s",
                 " ", "/", "w", "e", "a", "t", "h", "e", "r", " ", "r", "a", "i", "n",
                 "y", " ", "t", "o", "d", "a", "y">>),
     weather |-> <<<<"r", "a", "i", "n", "y">>>>,
     time |-> <<>>,
     repeated |-> FALSE]
TextTwoWeathers ==
    [arg |-> Str(<<"/", "w", "e", "a", "t", "h", "e", "r", " ", "r", "a", "i", "n", "y",
                 " ", "/", "w", "e", "a", "t", "h", "e", "r", " ", "f", "o", "g", "g", "y">>),
     weather |-> <<<<"r", "a", "i", "n", "y">>>>,
     time |-> <<>>,
     repeated |-> TRUE]
TextTwoTimes ==
    [arg |-> Str(<<"/", "t", "i", "m", "e", " ", "7", " ", "/", "t", "i", "m", "e", " ",
                 "9">>),
     weather |-> <<>>,
     time |-> <<[negative |-> FALSE, whole |-> 7, fraction |-> <<>>]>>,
     repeated |-> TRUE]
TextUpperCase ==
    [arg |-> Str(<<"/", "W", "E", "A", "T", "H", "E", "R", " ", " ", "R", "a", "i", "n",
                 "y">>),
     weather |-> <<<<"r", "a", "i", "n", "y">>>>,
     time |-> <<>>,
     repeated |-> FALSE]
TextBoth ==
    [arg |-> Str(<<"/", "w", "e", "a", "t", "h", "e", "r", " ", "f", "o", "g", "g", "y",
                 "\n", "/", "T", "i", "m", "e", " ", "1", "2", ".", "5", "0">>),
     weather |-> <<<<"f", "o", "g", "g", "y">>>>,
     time |-> <<[negative |-> FALSE, whole |-> 12, fraction |-> <<"5">>]>>,
     repeated |-> FALSE]
TextNoDirective ==
    [arg |-> Str(<<"h", "e", "l", "l", "o">>),
     weather |-> <<>>,
     time |-> <<>>,
     repeated |-> FALSE]
TextUnknownWeather ==
    [arg |-> Str(<<"/", "w", "e", "a", "t", "h", "e", "r", " ", "s", "u", "n", "n", "y">>),
     weather |-> <<>>,
     time |-> <<>>,
     repeated |-> FALSE]
TextNoSpace ==
    [arg |-> Str(<<"/", "w", "e", "a", "t", "h", "e", "r", "c", "l", "e", "a", "r", " ",
                 "/", "t", "i", "m", "e", "7">>),
     weather |-> <<>>,
     time |-> <<>>,
     repeated |-> FALSE]
TextTimeOutOfRange ==
    [arg |-> Str(<<"/", "t", "i", "m", "e", " ", "2", "5">>),
     weather |-> <<>>,
     time |-> <<[negative |-> FALSE, whole |-> 25, fraction |-> <<>>]>>,
     repeated |-> FALSE]
TextTimeNegative ==
    [arg |-> Str(<<"/", "t", "i", "m", "e", " ", "-", "5">>),
     weather |-> <<>>,
     time |-> <<[negative |-> TRUE, whole |-> 5, fraction |-> <<>>]>>,
     repeated |-> FALSE]
TextTimeLeadingZero ==
    [arg |-> Str(<<"/", "t", "i", "m", "e", " ", "0", "7", ".", "0">>),
     weather |-> <<>>,
     time |-> <<[negative |-> FALSE, whole |-> 7, fraction |-> <<>>]>>,
     repeated |-> FALSE]
TextEmpty ==
    [arg |-> Str(<<>>),
     weather |-> <<>>,
     time |-> <<>>,
     repeated |-> FALSE]
TextMissing ==
    [arg |-> NoValue, weather |-> <<>>, time |-> <<>>, repeated |-> FALSE]

CommandTexts ==
    {TextWeatherInSentence, TextTwoWeathers, TextTwoTimes, TextUpperCase, TextBoth,
     TextNoDirective, TextUnknownWeather, TextNoSpace, TextTimeOutOfRange,
     TextTimeNegative, TextTimeLeadingZero, TextEmpty, TextMissing}

\* checkForWorldCommands(text) is called; !text of line 436 covers a missing text
CheckForWorldCommands(input) ==
    /\ out' = IF input.arg.type = "string"
              THEN checkForWorldCommands(iframes, input.arg.val) ELSE <<>>
    /\ lastOp' = [name |-> "checkForWorldCommands", input |-> input]
    /\ lastSyncDone' = NoHistory
    /\ hostOut' = NoHostOut
    /\ threw' = FALSE
    /\ UNCHANGED <<trustVars, settings, iframes, timerVars, chat, chatSyncState,
                   pendingSyncs, lastHistory, streamLog>>
    /\ typingShown' = TypingAfter(typingShown, out')
    /\ UNCHANGED <<throwingFrames, browser>>

NextCommands ==
    \/ SetupSettingsPanel
    \/ \E src \in IframeSrcs : DomSetIframe("popup", src)
    \/ StatePollTick
    \/ \E input \in CommandTexts : CheckForWorldCommands(input)

SpecCommands == InitReady /\ [][NextCommands]_vars

-----------------------------------------------------------------------------
(* SpecFinalize: streams whose tokens and whose log carry directives *)

\* the messages the host log can hold here
CommandMessages ==
    {[role |-> CHAT_ROLE_ASSISTANT, mes |-> TextWeatherInSentence.arg.val],
     [role |-> CHAT_ROLE_ASSISTANT, mes |-> TextNoDirective.arg.val],
     [role |-> CHAT_ROLE_USER, mes |-> TextTwoTimes.arg.val]}

\* the arguments of the stream-token events here
CommandTokenArgs ==
    {<<NumberArg, Str(TextBoth.arg.val)>>, <<NumberArg, Str(<<"x">>)>>, <<NumberArg>>}

NextFinalize ==
    \/ DomSetIframe("popup", ViewSrc)
    \/ \E m \in CommandMessages : HostAppend(m)
    \/ \E i \in 1..MaxPending : SyncBuild(i)
    \/ \E i \in 1..MaxPending : SyncComplete(i)
    \/ HandleStreamStart
    \/ \E args \in CommandTokenArgs : HandleStreamToken(args)
    \/ HandleMessageFinished

SpecFinalize == InitReadyPanel /\ [][NextFinalize]_vars

-----------------------------------------------------------------------------
(* SpecLifecycle: the integration is set up and torn down while streams run *)
(* and the settings change                                                  *)

NextLifecycle ==
    \/ InitializeChatIntegration
    \/ TeardownChatIntegration
    \/ SetupSettingsPanel
    \/ \E b \in BOOLEAN : SetEnableStreaming(b)
    \/ \E b \in BOOLEAN : SetShowTypingIndicator(b)
    \/ HostAppend([role |-> CHAT_ROLE_ASSISTANT, mes |-> <<"a">>])
    \/ \E i \in 1..MaxPending : SyncBuild(i)
    \/ \E i \in 1..MaxPending : SyncComplete(i)
    \/ OnChatChanged
    \/ OnHistoryChanged
    \/ HandleStreamStart
    \/ \E t \in TokenTexts : HandleStreamToken(<<NumberArg, Str(t)>>)
    \/ HandleMessageFinished

SpecLifecycle == Init /\ [][NextLifecycle]_vars

-----------------------------------------------------------------------------
(* SpecDelivery: postMessage of a frame starts to throw while chat text,     *)
(* commands and state polls are broadcast                                   *)

\* frame.postMessage(...) of this frame throws from now on: the try blocks of
\* lines 245-251, 460-466 and 615-622 end in their catch for it
PostMessageThrows(frameWindow) ==
    /\ frameWindow \notin throwingFrames
    /\ throwingFrames' = throwingFrames \cup {frameWindow}
    /\ lastOp' = [name |-> "frame"]
    /\ lastSyncDone' = NoHistory
    /\ out' = <<>>
    /\ hostOut' = NoHostOut
    /\ threw' = FALSE
    /\ UNCHANGED <<trustVars, settings, iframes, timerVars, chat, chatSyncState,
                   pendingSyncs, lastHistory, streamLog>>
    /\ typingShown' = TypingAfter(typingShown, out')
    /\ UNCHANGED browser

NextDelivery ==
    \/ DomSetIframe("popup", ViewSrc)
    \/ \E w \in FrameWindows : PostMessageThrows(w)
    \/ HostAppend([role |-> CHAT_ROLE_ASSISTANT, mes |-> TextWeatherInSentence.arg.val])
    \/ \E i \in 1..MaxPending : SyncBuild(i)
    \/ \E i \in 1..MaxPending : SyncComplete(i)
    \/ HandleStreamStart
    \/ HandleStreamToken(<<NumberArg, Str(TextBoth.arg.val)>>)
    \/ HandleMessageFinished
    \/ StatePollTick

SpecDelivery == InitReadyPanel /\ [][NextDelivery]_vars

-----------------------------------------------------------------------------
(* SpecSettings: the settings object is whatever the host has stored, and   *)
(* normalizeAtmosphereSettings is applied to it                             *)

\* the values a stored field can have
RawNumbers ==
    {Num(n) : n \in {-10, 0, 1, 2, 5, 15, 20, 21, 30, 31, 125, 239, 240, 250, 399, 400,
                     1000, 1001}}
RawTexts ==
    {Str(<<>>), Str(<<" ">>), Str(<<"1", "2">>), Str(<<"-", "1", ".", "5">>),
     Str(<<"a", "b", "c">>), Str(<<"I", "n", "f", "i", "n", "i", "t", "y">>),
     Str(<<"r", "a", "i", "n", "y">>), Str(<<"R", "a", "i", "n", "y">>),
     Str(<<"F", "O", "G", "G", "Y">>), Str(<<"S", "U", "N", "N", "Y">>),
     Str(<<"c", "l", "e", "a", "r", " ">>)}
RawValues ==
    RawNumbers \cup RawTexts
        \cup {NaN, Infinity(FALSE), Infinity(TRUE), Null, NoValue, Bool(TRUE), Bool(FALSE),
              ObjectArg(<<>>)}

\* the settings objects: none, one with a single field, and one with every
\* field at its default but one
RawSettings ==
    {Null, NoValue, ObjectArg(<<>>)}
        \cup {ObjectArg([n \in {name} |-> v]) : name \in SettingsFields, v \in RawValues}
        \cup {ObjectArg([DEFAULT_SETTINGS EXCEPT ![name] = v]) :
                 name \in SettingsFields, v \in RawValues}

InitSettings ==
    /\ trackedFrameOrigins = <<>>
    /\ cachedWorldState = Undefined
    /\ atmospherePrompt = resolveAtmosphereSnapshot(Undefined)
    /\ settings = ObjectArg(DEFAULT_SETTINGS)
    /\ iframes = <<>>
    /\ messageListener = FALSE
    /\ chat = <<>>
    /\ chatSyncState = ResetSyncState
    /\ pendingSyncs = <<>>
    /\ chatIntegrationHandle = FALSE
    /\ chatPollTimer = FALSE
    /\ statePollTimer = FALSE
    /\ out = <<>>
    /\ hostOut = NoHostOut
    /\ threw = FALSE
    /\ typingShown = FALSE
    /\ throwingFrames = {}
    /\ browser = NothingRegistered
    /\ lastOp = NoOp
    /\ lastHistory = NoHistory
    /\ lastSyncDone = NoHistory
    /\ streamLog = <<>>

\* the host loads or another script writes extension_settings
StoreSettings(raw) ==
    /\ settings # raw
    /\ settings' = raw
    /\ lastOp' = [name |-> "settings"]
    /\ UNCHANGED <<trustVars, iframes, timerVars, chat, chatSyncState, pendingSyncs,
                   out, hostOut, threw, syncGhost, typingShown, throwingFrames, browser>>

\* normalizeAtmosphereSettings(getSettings()), lines 140, 689, 935
NormalizeAtmosphereSettings ==
    /\ settings' = normalizeAtmosphereSettings(settings)
    /\ lastOp' = [name |-> "normalizeAtmosphereSettings", raw |-> settings]
    /\ UNCHANGED <<trustVars, iframes, timerVars, chat, chatSyncState, pendingSyncs,
                   out, hostOut, threw, syncGhost, typingShown, throwingFrames, browser>>

NextSettings ==
    \/ \E raw \in RawSettings : StoreSettings(raw)
    \/ NormalizeAtmosphereSettings

SpecSettings == InitSettings /\ [][NextSettings]_vars

-----------------------------------------------------------------------------
(* Properties of the trust registry *)

\* the event and the record of the sender in the last call of resolveTrackedFrame
ResolvedEvent == lastOp.event
ResolvedRegistered == ResolvedEvent.source \in DOMAIN trackedFrameOrigins
ResolvedRecord == TrackedGet(trackedFrameOrigins, ResolvedEvent.source)

\* C1, as the specification states it: resolveTrackedFrame returns null if and
\* only if event.source was never registered, or the record registered for it
\* has a non-null origin that differs from event.origin; in every other case
\* it returns the registered record.
C1_NullIffUnregisteredOrDiffers ==
    lastOp.name = "resolveTrackedFrame" =>
        /\ lastOp.result = NoFrameInfo <=>
              \/ ~ResolvedRegistered
              \/ /\ ResolvedRecord.origin # NULL
                 /\ ResolvedRecord.origin # ResolvedEvent.origin
        /\ lastOp.result # NoFrameInfo => lastOp.result = ResolvedRecord

\* C1, amended: resolveTrackedFrame returns null if and only if event.source
\* is absent or was never registered, or the record registered for it has a
\* non-empty origin and the event carries a non-empty origin that differs
\* from it; in every other case, an event without an origin among them, it
\* returns the registered record.
C1_NullIffUnregisteredOrBothOriginsDiffer ==
    lastOp.name = "resolveTrackedFrame" =>
        /\ lastOp.result = NoFrameInfo <=>
              \/ ~ResolvedRegistered
              \/ /\ ResolvedRecord.origin \notin {NULL, ""}
                 /\ ResolvedEvent.origin \notin {NULL, ""}
                 /\ ResolvedRecord.origin # ResolvedEvent.origin
        /\ lastOp.result # NoFrameInfo => lastOp.result = ResolvedRecord

\* a registered frame is asked about with another origin than its record's
C1_Witness ==
    /\ lastOp.name = "resolveTrackedFrame"
    /\ ResolvedRegistered
    /\ ResolvedRecord.origin = "https://a"
    /\ ResolvedEvent.origin = "https://b"
    /\ lastOp.result = NoFrameInfo

\* C3: after a call rememberFrameOrigin(h, origin, iframe) the record of h is
\* the one of that call, the records of the other handles are as before, and
\* resolveTrackedFrame accepts for h the events of the new origin and rejects
\* the events of any other origin, the old one among them.
C3_LastRememberWins ==
    [][(lastOp'.name = "rememberFrameOrigin" /\ lastOp'.frameWindow # NULL) =>
          LET h == lastOp'.frameWindow
              rec == [origin |-> lastOp'.origin, iframe |-> lastOp'.iframe]
          IN  /\ TrackedGet(trackedFrameOrigins', h) = rec
              /\ \A w \in Windows \ {h} :
                    TrackedGet(trackedFrameOrigins', w) = TrackedGet(trackedFrameOrigins, w)
              /\ \A o \in Origins :
                    resolveTrackedFrame(trackedFrameOrigins',
                                        [source |-> h, origin |-> o, data |-> Undefined])
                       = IF rec.origin \in {NULL, o} THEN rec ELSE NoFrameInfo]_vars

\* a handle registered with one origin was registered again with another,
\* while another handle holds a record
C3_Witness ==
    /\ lastOp.name = "rememberFrameOrigin"
    /\ lastOp.frameWindow = "w1"
    /\ lastOp.previous # NoFrameInfo
    /\ lastOp.previous.origin = "https://a"
    /\ lastOp.origin = "https://b"
    /\ "w2" \in DOMAIN trackedFrameOrigins

\* C4: a handle registered with origin null is accepted whatever the origin
\* of the event, and an event of a handle that is not registered is rejected
\* whatever its origin, also while another handle holds a null-origin record.
C4_NullOriginAcceptsForThatHandleOnly ==
    lastOp.name = "resolveTrackedFrame" =>
        /\ (ResolvedRegistered /\ ResolvedRecord.origin = NULL)
              => lastOp.result = ResolvedRecord
        /\ ~ResolvedRegistered => lastOp.result = NoFrameInfo

\* an event of origin https://b from a handle registered with origin null
C4_Witness ==
    /\ lastOp.name = "resolveTrackedFrame"
    /\ ResolvedRegistered
    /\ ResolvedRecord.origin = NULL
    /\ ResolvedEvent.origin = "https://b"
    /\ lastOp.result = ResolvedRecord

-----------------------------------------------------------------------------
(* Properties of the inbound message listener *)

\* C2: a message that is not of this extension, or whose sender is not
\* registered or fails the origin check, is ignored whatever its type and
\* payload: the handler does not throw, and cachedWorldState, chatSyncState,
\* the atmosphere prompt and the host send pathway are as they were.
C2_IgnoredMessagesTouchNothing ==
    [][(lastOp'.name = "handleFrameChatMessage" /\ lastOp'.kind = "ignored") =>
          /\ ~threw'
          /\ hostOut' = NoHostOut
          /\ UNCHANGED <<cachedWorldState, chatSyncState, atmospherePrompt>>]_vars

\* a message was ignored while a world state was cached and a stream was on
C2_Witness ==
    /\ lastOp.name = "handleFrameChatMessage"
    /\ lastOp.kind = "ignored"
    /\ cachedWorldState = StateFull
    /\ chatSyncState.streamingActive
    /\ "w1" \in DOMAIN trackedFrameOrigins

\* C5: a world-engine-chat message of a trusted frame reaches
\* pushMessageToSillyTavern, with the trimmed text, if and only if its
\* direction is outgoing, its text is a string that is not empty after
\* trimming, and enableAutoreplies is on; in every other case nothing is
\* sent, nothing is queued and no state changes.
C5_ForwardedIffOutgoingNonEmptyAndAutoreplies ==
    [][(lastOp'.name = "handleFrameChatMessage" /\ lastOp'.kind = "world-engine-chat") =>
          IF lastOp'.outgoing /\ lastOp'.text # <<>> /\ lastOp'.autoreplies
          THEN hostOut'.pushed = <<lastOp'.text>>
          ELSE /\ hostOut' = NoHostOut
               /\ ~threw'
               /\ UNCHANGED <<trustVars, settings, chat, chatSyncState, pendingSyncs>>]_vars

\* the text " hi " of a trusted frame reached the host as "hi"
C5_Witness ==
    /\ lastOp.name = "handleFrameChatMessage"
    /\ lastOp.kind = "world-engine-chat"
    /\ hostOut.pushed = << <<"h", "i">> >>
    /\ hostOut.calls # <<>>

-----------------------------------------------------------------------------
(* Properties of the chat synchronisation *)

\* C6: a run of syncChatHistory that follows another run over the same host
\* log, with no other event between the two, finds the signature and the
\* length of chatSyncState equal to the snapshot's and posts nothing.
C6_RepeatedSyncPostsNothing ==
    (lastOp.name = "syncChatHistory" /\ lastOp.repeat) =>
        /\ ~lastOp.broadcast
        /\ out = <<>>

\* a second run over a log that holds a message, while a frame is rendered
C6_Witness ==
    /\ lastOp.name = "syncChatHistory"
    /\ lastOp.repeat
    /\ chat # <<>>
    /\ iframes # <<>>

\* C7: a run of syncChatHistory started by the chat-poll timer does not
\* broadcast when the host log has not changed since the last history
\* broadcast, whatever handlers ran in between.
C7_PollNeverRebroadcastsUnchangedLog ==
    (lastOp.name = "syncChatHistory" /\ lastOp.by = "poll" /\ lastOp.unchangedLog) =>
        ~lastOp.broadcast

\* C8: the signature and the length of chatSyncState are the reset values or
\* the ones of the most recent history snapshot that was broadcast.
C8_SyncStateIsResetOrLastBroadcast ==
    \/ /\ chatSyncState.lastSignature = NullSignature
       /\ chatSyncState.lastHistoryLength = 0
    \/ /\ lastHistory # NoHistory
       /\ chatSyncState.lastSignature = lastHistory.signature
       /\ chatSyncState.lastHistoryLength = lastHistory.length

\* C9: after the chat-changed handler and after the history-changed handler
\* chatSyncState holds the reset values, and the run of syncChatHistory that
\* either handler starts broadcasts its snapshot.
C9_ChatAndHistoryChangedResetAndResync ==
    /\ lastOp.name \in {"onChatChanged", "onHistoryChanged"} =>
          chatSyncState = ResetSyncState
    /\ (lastOp.name = "syncChatHistory" /\ lastOp.by = "resync") => lastOp.broadcast

-----------------------------------------------------------------------------
(* Properties of the streaming aggregator *)

\* the concatenation of the first k tokens of the stream
RECURSIVE Cumulative(_, _)
Cumulative(log, k) == IF k = 0 THEN <<>> ELSE Cumulative(log, k - 1) \o log[k].token

\* the k-th token of the stream was followed by one broadcast, to every
\* rendered frame, of an overwrite payload whose text is the cumulative buffer
OverwriteBroadcast(k) ==
    /\ Len(streamLog[k].sent) = Len(getWorldEngineFrames(iframes))
    /\ streamLog[k].sent # <<>>
    /\ \A j \in 1..Len(streamLog[k].sent) :
          /\ streamLog[k].sent[j].type = "world-engine-chat"
          /\ streamLog[k].sent[j].payload.overwrite
          /\ streamLog[k].sent[j].payload.text = Cumulative(streamLog, k)

\* C10, as the specification states it: during an active stream the tokens
\* t1..tn yield streamingBuffer = t1+...+tn and n overwrite broadcasts, the
\* k-th with the text t1+...+tk.
C10_EveryTokenBroadcastsCumulativeBuffer ==
    chatSyncState.streamingActive =>
        /\ chatSyncState.streamingBuffer = Cumulative(streamLog, Len(streamLog))
        /\ \A k \in 1..Len(streamLog) : OverwriteBroadcast(k)

\* C10, amended: during an active stream the tokens t1..tn yield
\* streamingBuffer = t1+...+tn; the k-th token is followed by one overwrite
\* broadcast with the text t1+...+tk when the host log holds an assistant
\* entry at that moment, and by no broadcast when it holds none.
C10_TokenBroadcastsCumulativeBufferIfAssistantEntry ==
    chatSyncState.streamingActive =>
        /\ chatSyncState.streamingBuffer = Cumulative(streamLog, Len(streamLog))
        /\ \A k \in 1..Len(streamLog) :
              IF streamLog[k].entry THEN OverwriteBroadcast(k)
              ELSE streamLog[k].sent = <<>>

\* two tokens of a stream over a log with an assistant entry
C10_Witness ==
    /\ chatSyncState.streamingActive
    /\ Len(streamLog) = 2
    /\ streamLog[1].entry /\ streamLog[2].entry
    /\ streamLog[1].token = <<"x">> /\ streamLog[2].token = <<"y">>
    /\ chatSyncState.streamingBuffer = <<"x", "y">>
    /\ out = streamLog[2].sent

-----------------------------------------------------------------------------
(* Properties of the command extraction *)

\* the text of the last call of checkForWorldCommands
CheckedText == lastOp.input

\* the messages of the last step that carry a command of the kind
IsWeatherCommand(post) ==
    post.type = "world-engine-command" /\ post.payload.command = "weather"
IsTimeCommand(post) ==
    post.type = "world-engine-command" /\ post.payload.command = "time"
WeatherPosts == SelectSeq(out, IsWeatherCommand)
TimePosts == SelectSeq(out, IsTimeCommand)

\* one message for every rendered frame, in their order, with the payload
OnePerFrame(posts, payload) ==
    posts = [k \in 1..Len(getWorldEngineFrames(iframes)) |->
                [to |-> getWorldEngineFrames(iframes)[k], source |-> EXTENSION_NAME,
                 type |-> "world-engine-command", payload |-> payload]]

\* C17: for any text, a frame gets at most one weather command and at most
\* one time command, each with the value of the first directive of its kind
\* in the text; a later directive of the same kind is not dispatched.
C17_FirstMatchOfEachKindOnly ==
    lastOp.name = "checkForWorldCommands" =>
        /\ Len(WeatherPosts) <= Len(getWorldEngineFrames(iframes))
        /\ Len(TimePosts) <= Len(getWorldEngineFrames(iframes))
        /\ Len(out) = Len(WeatherPosts) + Len(TimePosts)
        /\ WeatherPosts # <<>> =>
              /\ CheckedText.weather # <<>>
              /\ OnePerFrame(WeatherPosts, [command |-> "weather", args |-> CheckedText.weather])
        /\ TimePosts # <<>> =>
              /\ CheckedText.time # <<>>
              /\ OnePerFrame(TimePosts, [command |-> "time", args |-> CheckedText.time])

\* a text with two weather directives, dispatched to two frames
C17_Witness ==
    /\ lastOp.name = "checkForWorldCommands"
    /\ CheckedText = TextTwoWeathers
    /\ Len(getWorldEngineFrames(iframes)) = 2
    /\ Len(out) = 2

\* C18: the directive and the weather value are matched in either case,
\* anywhere in the text; the value is dispatched in lower case and is one of
\* clear, rainy, foggy; a text without a directive, an empty and a missing
\* text dispatch no command, and nothing is thrown.
C18_CaseInsensitiveAndSilentWithoutDirective ==
    lastOp.name = "checkForWorldCommands" =>
        /\ ~threw
        /\ CheckedText.weather # <<>> =>
              /\ OnePerFrame(WeatherPosts, [command |-> "weather", args |-> CheckedText.weather])
              /\ CheckedText.weather[1] \in
                    {<<"c", "l", "e", "a", "r">>, <<"r", "a", "i", "n", "y">>,
                     <<"f", "o", "g", "g", "y">>}
        /\ (CheckedText.weather = <<>> /\ CheckedText.time = <<>>) => out = <<>>

\* "/WEATHER  Rainy" reached a frame as rainy
C18_Witness ==
    /\ lastOp.name = "checkForWorldCommands"
    /\ CheckedText = TextUpperCase
    /\ WeatherPosts # <<>>
    /\ WeatherPosts[1].payload.args = << <<"r", "a", "i", "n", "y">> >>

\* C19, as the specification states it: for any finite decimal number written
\* after /time, the negative ones and the ones outside [0, 24] among them, a
\* time command with exactly that number is dispatched.
C19_AnyDecimalDispatchedUnclamped ==
    (lastOp.name = "checkForWorldCommands" /\ CheckedText.time # <<>>) =>
        OnePerFrame(TimePosts, [command |-> "time", args |-> CheckedText.time])

\* C19, amended: for any number written after /time as digits with an
\* optional fraction, the ones outside [0, 24] among them, a time command with
\* exactly that number is dispatched, not clamped; a number written with a
\* minus sign is not matched and no time command is dispatched for it.
C19_UnsignedDecimalDispatchedUnclamped ==
    (lastOp.name = "checkForWorldCommands" /\ CheckedText.time # <<>>) =>
        IF CheckedText.time[1].negative THEN TimePosts = <<>>
        ELSE OnePerFrame(TimePosts, [command |-> "time", args |-> CheckedText.time])

\* "/time 25" reached a frame as 25
C19_Witness ==
    /\ lastOp.name = "checkForWorldCommands"
    /\ CheckedText = TextTimeOutOfRange
    /\ TimePosts # <<>>
    /\ TimePosts[1].payload.args[1].whole = 25

-----------------------------------------------------------------------------
(* Properties of the streaming life cycle *)

\* the typing messages of the last step
IsTypingOn(post) ==
    post.type = "world-engine-chat" /\ "typing" \in DOMAIN post.payload
        /\ post.payload.typing = TRUE
IsTypingOff(post) ==
    post.type = "world-engine-chat" /\ "typing" \in DOMAIN post.payload
        /\ post.payload.typing = FALSE
TypingOnPosts == SelectSeq(out, IsTypingOn)
TypingOffPosts == SelectSeq(out, IsTypingOff)

\* every rendered frame got one of the messages, in the order of the frames
ReachEveryFrame(posts) ==
    /\ Len(posts) = Len(getWorldEngineFrames(iframes))
    /\ \A k \in 1..Len(posts) : posts[k].to = getWorldEngineFrames(iframes)[k]

\* C11, as the specification states it: while enableStreaming is off, a
\* stream-token event leaves streamingBuffer alone and broadcasts nothing,
\* also when the flag went off after the stream had started; stream-start
\* broadcasts typing = true to every frame when the typing indicator is on,
\* whatever enableStreaming is.
C11_DisabledStreamingNeverAccumulates ==
    /\ (lastOp.name = "handleStreamToken" /\ ~settings.enableStreaming) =>
          (~lastOp.appended /\ out = <<>>)
    /\ (lastOp.name = "handleStreamStart" /\ settings.showTypingIndicator) =>
          (out = TypingOnPosts /\ ReachEveryFrame(TypingOnPosts))

\* C15: after a message-finished event, whether a buffer was accumulated or
\* not, streamingActive is false, streamingBuffer is empty, and a run of
\* syncChatHistory for all frames has been started.
C15_FinalizeClearsAndStartsSync ==
    lastOp.name = "handleMessageFinished" =>
        /\ ~chatSyncState.streamingActive
        /\ chatSyncState.streamingBuffer = <<>>
        /\ pendingSyncs # <<>>
        /\ pendingSyncs[Len(pendingSyncs)] = StartedSync(NULL, "other")

\* a message-finished event that found an accumulated buffer
C15_Witness ==
    /\ lastOp.name = "handleMessageFinished"
    /\ lastOp.buffer # <<>>
    /\ chatSyncState.streamingBuffer = <<>>
    /\ pendingSyncs # <<>>

-----------------------------------------------------------------------------
(* Properties of the message-finished event *)

\* the messages of the last step that carry assistant text, and its commands
IsAssistantText(post) ==
    post.type = "world-engine-chat" /\ "text" \in DOMAIN post.payload
IsCommand(post) == post.type = "world-engine-command"
AssistantTextPosts == SelectSeq(out, IsAssistantText)
CommandPosts == SelectSeq(out, IsCommand)

\* the buffer the last message-finished event found
FinalBuffer == lastOp.buffer

\* the commands of the latest assistant entry of the log, if it has one with text
FallbackCommands ==
    IF TruthyObject(getLatestAssistantEntry(chat))
    THEN checkForWorldCommands(iframes, getLatestAssistantEntry(chat).text)
    ELSE <<>>

\* every frame got the buffer as the final text
FinalTextToEveryFrame ==
    /\ ReachEveryFrame(AssistantTextPosts)
    /\ \A k \in 1..Len(AssistantTextPosts) :
          /\ AssistantTextPosts[k].payload.text = FinalBuffer
          /\ AssistantTextPosts[k].payload.overwrite = TRUE

\* C13, as the specification states it: a message-finished event that finds
\* a buffer broadcasts it once more to every frame with overwrite = true and
\* dispatches the commands of the buffer, not of the log; one that finds no
\* buffer broadcasts no assistant text and dispatches the commands of the
\* latest assistant entry of the log, if there is one.
C13_FinalizeBroadcastsBufferAndExtracts ==
    lastOp.name = "handleMessageFinished" =>
        IF FinalBuffer # <<>>
        THEN /\ FinalTextToEveryFrame
             /\ CommandPosts = checkForWorldCommands(iframes, FinalBuffer)
        ELSE /\ AssistantTextPosts = <<>>
             /\ CommandPosts = FallbackCommands

\* C13, amended: the buffer is broadcast once more, with overwrite = true,
\* when the host log has an assistant entry, whose signature the broadcast
\* carries; when it has none the buffer is not broadcast.  The commands are
\* those of the buffer in both cases.  Without a buffer there is no assistant
\* text and the commands are those of the latest assistant entry, if any.
C13_FinalizeBroadcastsBufferIfAssistantEntry ==
    lastOp.name = "handleMessageFinished" =>
        IF FinalBuffer # <<>>
        THEN /\ IF TruthyObject(getLatestAssistantEntry(chat))
                THEN /\ FinalTextToEveryFrame
                     /\ \A k \in 1..Len(AssistantTextPosts) :
                           AssistantTextPosts[k].payload.signature =
                              getLatestAssistantEntry(chat).signature
                ELSE AssistantTextPosts = <<>>
             /\ CommandPosts = checkForWorldCommands(iframes, FinalBuffer)
        ELSE /\ AssistantTextPosts = <<>>
             /\ CommandPosts = FallbackCommands

\* the buffer says foggy and the log says rainy: both frames got the buffer
\* and foggy
C13_Witness ==
    /\ lastOp.name = "handleMessageFinished"
    /\ FinalBuffer = TextBoth.arg.val
    /\ TruthyObject(getLatestAssistantEntry(chat))
    /\ getLatestAssistantEntry(chat).text = TextWeatherInSentence.arg.val
    /\ Len(AssistantTextPosts) = 2
    /\ Len(WeatherPosts) = 2
    /\ WeatherPosts[1].payload.args = TextBoth.weather

\* C14: a message-finished event that finds no buffer, while the text of the
\* latest assistant entry has one /weather rainy directive and no /time
\* directive, dispatches one command to every frame, weather with the
\* argument rainy, and no time command.
C14_FallbackDispatchesOneWeatherCommand ==
    (/\ lastOp.name = "handleMessageFinished"
     /\ FinalBuffer = <<>>
     /\ TruthyObject(getLatestAssistantEntry(chat))
     /\ \E t \in CommandTexts :
           /\ t.arg = Str(getLatestAssistantEntry(chat).text)
           /\ t.weather = << <<"r", "a", "i", "n", "y">> >>
           /\ t.time = <<>>
           /\ ~t.repeated)
    => /\ OnePerFrame(CommandPosts,
                      [command |-> "weather", args |-> << <<"r", "a", "i", "n", "y">> >>])
       /\ TimePosts = <<>>

\* no token was streamed, the log ends with a user message that has /time
\* directives, the assistant entry before it says rainy: two frames got rainy
C14_Witness ==
    /\ lastOp.name = "handleMessageFinished"
    /\ FinalBuffer = <<>>
    /\ Len(chat) = 2
    /\ chat[1].mes = TextWeatherInSentence.arg.val
    /\ chat[2].role = CHAT_ROLE_USER
    /\ Len(CommandPosts) = 2
    /\ CommandPosts[2].payload.args = << <<"r", "a", "i", "n", "y">> >>

-----------------------------------------------------------------------------
(* Properties of the life cycle *)

\* the steps that end a stream: finalize, history reset and teardown
StreamEnds == {"handleMessageFinished", "onHistoryChanged", "teardownChatIntegration"}

\* old is the beginning of new
IsPrefixOf(old, new) ==
    Len(old) <= Len(new) /\ SubSeq(new, 1, Len(old)) = old

\* C12: streamingActive becomes true at a stream-start event only, and is
\* false after every finalize, history reset and teardown, so that it is true
\* only between a stream-start and the next of these; streamingBuffer grows,
\* by appending, only in a stream-token step taken while streamingActive is
\* true, and every other change of it empties it.
C12_ActiveOnlyWithinStreamAndBufferGrowsOnlyWhileActive ==
    [][/\ chatSyncState'.streamingActive =>
             (chatSyncState.streamingActive \/ lastOp'.name = "handleStreamStart")
       /\ lastOp'.name \in StreamEnds => ~chatSyncState'.streamingActive
       /\ chatSyncState'.streamingBuffer # chatSyncState.streamingBuffer =>
             \/ chatSyncState'.streamingBuffer = <<>>
             \/ /\ chatSyncState.streamingActive
                /\ lastOp'.name = "handleStreamToken"
                /\ IsPrefixOf(chatSyncState.streamingBuffer, chatSyncState'.streamingBuffer)]_vars

\* a second token was appended to the buffer of a running stream
C12_Witness ==
    /\ lastOp.name = "handleStreamToken"
    /\ lastOp.appended
    /\ chatSyncState.streamingActive
    /\ Len(chatSyncState.streamingBuffer) = 2

\* C16, as the specification states it: after a finalize, a history reset or
\* a teardown no frame is left with typing = true as the last typing state it
\* was sent, whatever settings changed since the stream started.
C16_TypingClearedWhenStreamEnds ==
    lastOp.name \in StreamEnds => ~typingShown

\* C20: after teardownChatIntegration both timers, the host integration and
\* the message listener are gone, chatSyncState has its reset values, and
\* with the typing indicator enabled every frame was sent typing = false and
\* nothing else; with it disabled nothing was sent.
C20_TeardownClearsEverything ==
    lastOp.name = "teardownChatIntegration" =>
        /\ ~chatPollTimer
        /\ ~statePollTimer
        /\ ~chatIntegrationHandle
        /\ ~messageListener
        /\ chatSyncState = ResetSyncState
        /\ IF settings.showTypingIndicator
           THEN out = TypingOffPosts /\ ReachEveryFrame(TypingOffPosts)
           ELSE out = <<>>

\* a teardown in the middle of a stream, with a frame to tell
C20_Witness ==
    /\ lastOp.name = "teardownChatIntegration"
    /\ lastOp.active
    /\ TypingOffPosts # <<>>
    /\ ~chatSyncState.streamingActive
    /\ ~chatPollTimer

\* C21: teardownChatIntegration leaves the runs of syncChatHistory in flight
\* as they are, and a run that completes while the integration is torn down
\* and that broadcasts posts its history to every frame and writes the
\* signature and the length of that history to lastSignature and
\* lastHistoryLength.
C21_TeardownDoesNotCancelBuilds ==
    [][/\ lastOp'.name = "teardownChatIntegration" => pendingSyncs' = pendingSyncs
       /\ (lastOp'.name = "syncChatHistory" /\ ~chatIntegrationHandle' /\ lastOp'.broadcast) =>
             /\ Len(pendingSyncs') = Len(pendingSyncs) - 1
             /\ ReachEveryFrame(out')
             /\ \A k \in 1..Len(out') : "history" \in DOMAIN out'[k].payload
             /\ chatSyncState'.lastSignature = lastHistory'.signature
             /\ chatSyncState'.lastHistoryLength = lastHistory'.length]_vars

\* a run started before the teardown completed after it: the frame got a
\* history and chatSyncState is off its reset values, with no timer, no
\* listener and no integration left
C21_Witness ==
    /\ lastOp.name = "syncChatHistory"
    /\ lastOp.broadcast
    /\ ~chatIntegrationHandle /\ ~chatPollTimer /\ ~messageListener
    /\ out # <<>>
    /\ "history" \in DOMAIN out[1].payload
    /\ chatSyncState.lastSignature # NullSignature

-----------------------------------------------------------------------------
(* Properties of the stream buffer *)

\* C29: after a stream-start event streamingBuffer is empty, whatever the
\* buffer held before; the text of a stream that was still running is gone.
C29_StreamStartEmptiesBuffer ==
    lastOp.name = "handleStreamStart" => chatSyncState.streamingBuffer = <<>>

\* a stream-start that found the text of a running stream in the buffer
C29_Witness ==
    /\ lastOp.name = "handleStreamStart"
    /\ lastOp.buffer # <<>>
    /\ chatSyncState.streamingBuffer = <<>>
    /\ chatSyncState.streamingActive

\* C30: in every step that is not a stream-start, finalize, history reset or
\* teardown the old streamingBuffer is a prefix of the new one; a stream-token
\* event whose resolved text is empty leaves the buffer as it is and posts
\* nothing.
C30_BufferOnlyGrowsWithinStream ==
    [][/\ lastOp'.name \notin StreamEnds \cup {"handleStreamStart"} =>
             IsPrefixOf(chatSyncState.streamingBuffer, chatSyncState'.streamingBuffer)
       /\ (lastOp'.name = "handleStreamToken" /\ lastOp'.empty) =>
             /\ chatSyncState'.streamingBuffer = chatSyncState.streamingBuffer
             /\ out' = <<>>]_vars

\* a token without text arrived in a running stream that has text
C30_Witness ==
    /\ lastOp.name = "handleStreamToken"
    /\ lastOp.empty
    /\ chatSyncState.streamingActive
    /\ Len(streamLog) = 1
    /\ chatSyncState.streamingBuffer = <<"x">>

-----------------------------------------------------------------------------
(* Properties of the settings normalizer *)

\* the object normalizeAtmosphereSettings was last called with, and what a
\* field of it held, the default standing in for a missing or null field
NormalizedFrom == lastOp.raw
RawField(name) == Coalesce(Field(NormalizedFrom, name), DEFAULT_SETTINGS[name])
Normalized(name) == settings.val[name]
NormalizedObject == lastOp.name = "normalizeAtmosphereSettings" /\ ToBoolean(NormalizedFrom)

\* the ranged fields and their closed ranges, in tenths
RangeOf(name) ==
    CASE name = "cameraFov" -> CAMERA_FOV_RANGE
      [] name = "mouseSensitivity" -> MOUSE_SENSITIVITY_RANGE
      [] name = "renderScale" -> RENDER_SCALE_RANGE
      [] name = "rainIntensity" -> RAIN_INTENSITY_RANGE
      [] name = "fogDensity" -> FOG_DENSITY_RANGE
      [] name = "cloudDensity" -> CLOUD_DENSITY_RANGE
      [] name = "cloudSpeed" -> CLOUD_SPEED_RANGE
RangedFields ==
    {"cameraFov", "mouseSensitivity", "renderScale", "rainIntensity", "fogDensity",
     "cloudDensity", "cloudSpeed"}
FlagFields ==
    {"enableStreaming", "showTypingIndicator", "enableAutoreplies", "shadowsEnabled",
     "showChatBubbles", "cloudsEnabled"}
InRange(v, range) == v.type = "number" /\ range[1] <= v.tenths /\ v.tenths <= range[2]

\* C22: timeOfDay 24, every number above 24 and every negative number become
\* 0, NaN, the infinities and a text that is no number become the default,
\* a number in [0, 24) stays; the result is always a number in [0, 24).
C22_TimeOfDayWrapsInto024 ==
    NormalizedObject =>
        /\ Normalized("timeOfDay").type = "number"
        /\ 0 <= Normalized("timeOfDay").tenths /\ Normalized("timeOfDay").tenths < 240
        /\ RawField("timeOfDay").type = "number" =>
              Normalized("timeOfDay") =
                 IF RawField("timeOfDay").tenths >= 240 \/ RawField("timeOfDay").tenths < 0
                 THEN Num(0) ELSE RawField("timeOfDay")
        /\ RawField("timeOfDay") \in {NaN, Infinity(FALSE), Infinity(TRUE),
                                      Str(<<"a", "b", "c">>), ObjectArg(<<>>)} =>
              Normalized("timeOfDay") = DEFAULT_SETTINGS.timeOfDay

\* timeOfDay 25 became 0
C22_Witness ==
    /\ NormalizedObject
    /\ RawField("timeOfDay") = Num(250)
    /\ Normalized("timeOfDay") = Num(0)

\* text is one of the presets when the case of its letters is ignored
IsPresetIgnoringCase(text) ==
    \E preset \in WEATHER_PRESETS :
        /\ Len(text) = Len(preset)
        /\ \A k \in 1..Len(text) : text[k] = preset[k] \/ ToLowerChar(text[k]) = preset[k]

\* C23: weather becomes the preset in lower case when the stored value is a
\* text that equals clear, foggy or rainy ignoring case, and the default
\* preset for every other stored value: another text, not a text, missing.
C23_WeatherIsPresetOrDefault ==
    NormalizedObject =>
        /\ Normalized("weather").type = "string"
        /\ IF RawField("weather").type = "string" /\ IsPresetIgnoringCase(RawField("weather").val)
           THEN /\ Normalized("weather").val \in WEATHER_PRESETS
                /\ IsPresetIgnoringCase(RawField("weather").val)
                /\ \A k \in 1..Len(RawField("weather").val) :
                      Normalized("weather").val[k] = ToLowerChar(RawField("weather").val[k])
                /\ Len(Normalized("weather").val) = Len(RawField("weather").val)
           ELSE Normalized("weather") = DEFAULT_SETTINGS.weather

\* the stored weather Rainy became rainy
C23_Witness ==
    /\ NormalizedObject
    /\ RawField("weather") = Str(<<"R", "a", "i", "n", "y">>)
    /\ Normalized("weather") = Str(<<"r", "a", "i", "n", "y">>)

\* C24, as the specification states it: a ranged field whose stored value is
\* not a finite number inside the closed range of the field becomes the
\* default of the field.
C24_OutsideRangeBecomesDefault ==
    NormalizedObject =>
        \A name \in RangedFields :
            ~InRange(RawField(name), RangeOf(name)) => Normalized(name) = DEFAULT_SETTINGS[name]

\* C24, amended: a ranged field whose stored value, converted with Number,
\* is not finite becomes the default of the field; one whose value is a
\* finite number below the range becomes the lower end of the range, one
\* above it the upper end; a number inside the range stays.
C24_NonFiniteBecomesDefaultOutsideIsClamped ==
    NormalizedObject =>
        \A name \in RangedFields :
            LET numeric == ToNumber(RawField(name))
            IN  Normalized(name) =
                   IF numeric.type # "number" THEN DEFAULT_SETTINGS[name]
                   ELSE IF numeric.tenths < RangeOf(name)[1] THEN Num(RangeOf(name)[1])
                   ELSE IF numeric.tenths > RangeOf(name)[2] THEN Num(RangeOf(name)[2])
                   ELSE numeric

\* a camera field of view of 100.1 became 100, and the default is another
C24_Witness ==
    /\ NormalizedObject
    /\ RawField("cameraFov") = Num(1001)
    /\ Normalized("cameraFov") = Num(1000)
    /\ DEFAULT_SETTINGS.cameraFov # Num(1000)

\* C25: after normalizeAtmosphereSettings on an object, whatever it held,
\* every ranged field is a number inside its closed range and each of the six
\* flags is a boolean.
C25_RangedFieldsInRangeAndFlagsBoolean ==
    NormalizedObject =>
        /\ \A name \in RangedFields : InRange(Normalized(name), RangeOf(name))
        /\ \A name \in FlagFields : Normalized(name).type = "boolean"

\* an object that held one field, a text in a flag: the flag is true and the
\* fields it lacked are there
C25_Witness ==
    /\ NormalizedObject
    /\ DOMAIN NormalizedFrom.val = {"shadowsEnabled"}
    /\ NormalizedFrom.val.shadowsEnabled = Str(<<"a", "b", "c">>)
    /\ Normalized("shadowsEnabled") = Bool(TRUE)
    /\ InRange(Normalized("fogDensity"), FOG_DENSITY_RANGE)

-----------------------------------------------------------------------------
(* Properties of the broadcasts when postMessage throws *)

\* the steps that broadcast to every rendered frame
IsBroadcastStep ==
    \/ lastOp.name \in {"handleStreamToken", "handleMessageFinished", "pollWorldState"}
    \/ lastOp.name = "syncChatHistory" /\ lastOp.target = NULL

\* what postMessage of this frame was called with, in order
CalledWith(frameWindow) ==
    LET posts == SelectSeq(out, LAMBDA p : p.to = frameWindow)
    IN  [k \in 1..Len(posts) |-> [type |-> posts[k].type, payload |-> posts[k].payload]]

\* the rendered frames, as a set
RenderedWindows ==
    {getWorldEngineFrames(iframes)[k] : k \in 1..Len(getWorldEngineFrames(iframes))}

\* C26: when postMessage throws for a frame during a chat, command or
\* state-poll broadcast, the exception stays with that frame: every other
\* rendered frame is still called with the same messages, and the handler
\* that broadcast runs to its end (a state poll asks every frame, a
\* message-finished event leaves the stream ended and the buffer empty).
C26_ThrowingFrameDoesNotStopBroadcast ==
    (IsBroadcastStep /\ throwingFrames # {}) =>
        /\ \A w1 \in RenderedWindows, w2 \in RenderedWindows : CalledWith(w1) = CalledWith(w2)
        /\ ~threw
        /\ lastOp.name = "pollWorldState" =>
              \A w \in RenderedWindows : CalledWith(w) = <<[type |-> "get-world-state",
                                                             payload |-> Undefined]>>
        /\ lastOp.name = "handleMessageFinished" =>
              /\ ~chatSyncState.streamingActive
              /\ chatSyncState.streamingBuffer = <<>>
              /\ lastOp.buffer # <<>> => CommandPosts = checkForWorldCommands(iframes, lastOp.buffer)

\* postMessage of the panel frame, the first of the two rendered frames,
\* throws; the popup frame still got the final text, both commands and the
\* end of typing
C26_Witness ==
    /\ lastOp.name = "handleMessageFinished"
    /\ throwingFrames = {ContentWindow("panel")}
    /\ getWorldEngineFrames(iframes) = <<ContentWindow("panel"), ContentWindow("popup")>>
    /\ Len(CalledWith(ContentWindow("popup"))) = 4
    /\ CalledWith(ContentWindow("popup"))[1].type = "world-engine-chat"
    /\ CalledWith(ContentWindow("popup"))[2].payload.command = "weather"
    /\ CalledWith(ContentWindow("popup"))[3].payload.command = "time"
    /\ CalledWith(ContentWindow("popup"))[4].payload.typing = FALSE

-----------------------------------------------------------------------------
(* Properties of the host send pathway *)

\* C27, as the specification states it: no inbound message of a trusted
\* frame makes the listener throw, whatever fields the payloads of the
\* messages before it lacked; an outgoing chat text or an avatar click that
\* follows a world-engine-state message without position is still forwarded.
C27_PartialPayloadNeverThrows ==
    lastOp.name = "handleFrameChatMessage" => ~threw

\* the calls that hand the message to the host; filling the textarea only
\* prepares the click and the submit
Deliveries == SelectSeq(hostOut.calls, LAMBDA c : c.via # "textarea.input")

\* the first pathway the page offers, in the order of lines 481-506
FirstAvailable(env) ==
    IF env.send_message THEN "send_message"
    ELSE IF env.sendMessage THEN "SillyTavern.sendMessage"
    ELSE IF env.sendButton THEN "sendButton.click"
    ELSE IF env.form THEN "form.submit"
    ELSE NULL

\* C28, as the specification states it: a text handed to
\* pushMessageToSillyTavern is delivered through exactly one pathway, the
\* first available of global send function, host API object, send button and
\* form submit.
C28_ExactlyOnePathwayInOrder ==
    (lastOp.name = "pushMessageToSillyTavern" /\ lastOp.text # <<>>) =>
        /\ Len(Deliveries) = 1
        /\ Deliveries[1].via = FirstAvailable(lastOp.env)

\* C28, amended: at most one pathway is used, the first available in that
\* order, once, and none after it; none is used when the page offers none,
\* and none when the cached state has no position, because building the
\* state note then throws.  The textarea is filled only when neither send
\* function is available.
C28_AtMostOnePathwayFirstAvailable ==
    (lastOp.name = "pushMessageToSillyTavern" /\ lastOp.text # <<>>) =>
        /\ threw = StateNoteThrows(cachedWorldState)
        /\ IF threw \/ FirstAvailable(lastOp.env) = NULL
           THEN Deliveries = <<>>
           ELSE /\ Len(Deliveries) = 1
                /\ Deliveries[1].via = FirstAvailable(lastOp.env)
                /\ Deliveries[1].message.text = lastOp.text
        /\ hostOut.calls # Deliveries =>
              /\ ~lastOp.env.send_message /\ ~lastOp.env.sendMessage /\ lastOp.env.textarea
              /\ hostOut.calls[1].via = "textarea.input"
              /\ Tail(hostOut.calls) = Deliveries

\* no send function; a textarea, a send button and a form: the textarea was
\* filled and the button clicked, the form was not submitted
C28_Witness ==
    /\ lastOp.name = "pushMessageToSillyTavern"
    /\ lastOp.text = AvatarTouchText
    /\ cachedWorldState = StateFull
    /\ lastOp.env = [send_message |-> FALSE, sendMessage |-> FALSE, textarea |-> TRUE,
                     sendButton |-> TRUE, form |-> TRUE]
    /\ Len(hostOut.calls) = 2
    /\ hostOut.calls[2].via = "sendButton.click"
    /\ hostOut.calls[2].message.stateNote

-----------------------------------------------------------------------------
(* Properties of the signature refresh *)

\* the positions of the host log that getLatestAssistantEntry searches and
\* that hold an assistant entry
AssistantPositions ==
    {i \in 1..Len(chat) :
        /\ i > Len(chat) - 2 * CHAT_SYNC_HISTORY_LIMIT
        /\ normalizeHistoryEntry(chat, i).role = CHAT_ROLE_ASSISTANT}

\* the signature of the last of them, null when there is none
LatestAssistantSignature ==
    IF AssistantPositions = {} THEN NullSignature
    ELSE normalizeHistoryEntry(chat, CHOOSE i \in AssistantPositions :
                                        \A j \in AssistantPositions : j <= i).signature

\* C31: after a stream-token event that appended non-empty text,
\* lastSignature is the signature of the latest assistant entry of the host
\* log, or null when the searched window of the log has no assistant entry,
\* and lastHistoryLength is what it was before the event.
C31_TokenRefreshesSignatureOnly ==
    [][(lastOp'.name = "handleStreamToken" /\ lastOp'.appended) =>
          /\ chatSyncState'.lastSignature = LatestAssistantSignature'
          /\ chatSyncState'.lastHistoryLength = chatSyncState.lastHistoryLength]_vars

\* the history of the log was broadcast, and a token then moved
\* lastSignature from the signature of that history to the signature of the
\* assistant entry, with the length still that of the history
C31_Witness ==
    /\ lastOp.name = "handleStreamToken"
    /\ lastOp.appended
    /\ AssistantPositions # {}
    /\ chatSyncState.lastSignature = LatestAssistantSignature
    /\ "signature" \in DOMAIN lastHistory
    /\ lastHistory.signature # chatSyncState.lastSignature
    /\ lastHistory.length > 0
    /\ chatSyncState.lastHistoryLength = lastHistory.length

-----------------------------------------------------------------------------
(* Properties of overlapping runs of syncChatHistory *)

\* the snapshot buildHistorySnapshot makes of the host log as it is
CurrentSnapshot == buildHistorySnapshot(chat, CHAT_SYNC_HISTORY_LIMIT, HostMaxContext)

\* the last history broadcast carried the snapshot of the log as it is, and
\* lastSignature is its signature
FramesCurrent ==
    /\ lastHistory # NoHistory
    /\ lastHistory.signature = CurrentSnapshot.signature
    /\ lastHistory.length = Len(CurrentSnapshot.history)
    /\ chatSyncState.lastSignature = CurrentSnapshot.signature

\* C32: runs of syncChatHistory overlap and complete in any order while the
\* host log changes.  Under fair firing of the chat-poll timer, whenever the
\* log does not change any more, the last history broadcast comes to carry
\* the snapshot of the log and lastSignature to be its signature, again
\* after every stale run that completes late: at any time, either the log
\* changes once more or that state is reached.
C32_PollEventuallyBringsCurrentSnapshot ==
    []<>(FramesCurrent \/ lastOp.name = "host")

\* two runs overlapped: the one that read the log as it is has completed and
\* was broadcast, the one that read the log before its last change is still
\* to complete
C32_Witness ==
    /\ lastOp.name = "syncChatHistory"
    /\ lastOp.broadcast
    /\ FramesCurrent
    /\ Len(pendingSyncs) = 1
    /\ pendingSyncs[1].phase = "built"
    /\ pendingSyncs[1].snapshot.signature # CurrentSnapshot.signature

-----------------------------------------------------------------------------
(* Properties of the frame load *)

\* C33, as the specification states it: the run of syncChatHistory that the
\* load of a frame starts posts the history of its snapshot to that frame,
\* also when the same snapshot was broadcast before the frame loaded and the
\* host log has not changed since.
C33_LoadedFrameGetsHistory ==
    (lastOp.name = "syncChatHistory" /\ lastOp.by = "load") =>
        /\ lastOp.broadcast
        /\ Len(out) = 1
        /\ out[1].to = lastOp.target
        /\ "history" \in DOMAIN out[1].payload

-----------------------------------------------------------------------------
(* Properties of the autoreplies setting *)

\* C34, as the specification states it: while enableAutoreplies is off, no
\* inbound frame message of any type hands a message to the host's send
\* pathway.
C34_NoForwardingWithoutAutoreplies ==
    (lastOp.name = "handleFrameChatMessage" /\ ~settings.enableAutoreplies) =>
        hostOut = NoHostOut

\* C34, amended: while enableAutoreplies is off, no world-engine-chat and no
\* world-engine-state message hands a message to the host's send pathway;
\* a world-engine-interaction message that is a click on the avatar does,
\* with the avatar text, as it does while the setting is on, and no other
\* interaction does.
C34_OnlyAvatarClickIsForwardedWithoutAutoreplies ==
    (lastOp.name = "handleFrameChatMessage" /\ ~settings.enableAutoreplies) =>
        IF lastOp.kind = "world-engine-interaction" /\ lastOp.payload = ClickAvatar
        THEN hostOut.pushed = <<AvatarTouchText>>
        ELSE hostOut = NoHostOut

\* autoreplies are off: the outgoing text "hi" of a trusted frame was dropped
C34_Witness ==
    /\ lastOp.name = "handleFrameChatMessage"
    /\ lastOp.kind = "world-engine-chat"
    /\ lastOp.outgoing
    /\ lastOp.text = <<"h", "i">>
    /\ ~settings.enableAutoreplies
    /\ hostOut = NoHostOut

-----------------------------------------------------------------------------
(* Properties of the buffer and the streaming flag *)

\* C35: in every reachable state a streamingBuffer that is not empty comes
\* with streamingActive true; whenever streamingActive is false the buffer
\* is empty.
C35_BufferOnlyWhileActive ==
    chatSyncState.streamingBuffer # <<>> => chatSyncState.streamingActive

\* enableStreaming went off within a stream and a token was appended after
\* it: the buffer holds two tokens and the flag is still on
C35_Witness ==
    /\ lastOp.name = "handleStreamToken"
    /\ lastOp.appended
    /\ ~settings.enableStreaming
    /\ Len(chatSyncState.streamingBuffer) = 2
    /\ chatSyncState.streamingActive

-----------------------------------------------------------------------------
(* Properties of set-up and teardown *)

\* C36: under any sequence of initializeChatIntegration and
\* teardownChatIntegration calls at most one chat-poll timer, at most one
\* state-poll timer and at most one message listener are there at any time,
\* and an initialize that finds the integration set up starts nothing: no
\* timer, no listener, no run of syncChatHistory and no state poll.
C36_AtMostOneOfEachAndSecondInitializeIdle ==
    [][/\ browser'.chatPollTimers <= 1
       /\ browser'.statePollTimers <= 1
       /\ browser'.messageListeners <= 1
       /\ (lastOp'.name = "initializeChatIntegration" /\ lastOp'.again) =>
             /\ out' = <<>>
             /\ UNCHANGED <<browser, timerVars, pendingSyncs, chatSyncState,
                            trackedFrameOrigins>>]_vars

\* initializeChatIntegration was called while the integration was set up:
\* one timer of each kind and one listener are there
C36_Witness ==
    /\ lastOp.name = "initializeChatIntegration"
    /\ lastOp.again
    /\ browser = OneOfEach
    /\ chatPollTimer /\ statePollTimer /\ messageListener
    /\ chatIntegrationHandle

-----------------------------------------------------------------------------
(* Properties of repeated normalization *)

\* C37: normalizeAtmosphereSettings is idempotent and gives back what it was
\* given: applied to settings it has just normalized it changes no field,
\* and applied to null it leaves null, without an exception.
C37_NormalizeIsIdempotentAndKeepsNull ==
    [][lastOp'.name = "normalizeAtmosphereSettings" =>
          /\ ~threw'
          /\ lastOp.name = "normalizeAtmosphereSettings" => settings' = settings
          /\ settings = Null => settings' = Null]_vars

\* normalizeAtmosphereSettings was applied to an object that has every field
\* in its normalized form, the time of day 0, and changed nothing
C37_Witness ==
    /\ lastOp.name = "normalizeAtmosphereSettings"
    /\ lastOp.raw = settings
    /\ settings.type = "object"
    /\ settings.val.timeOfDay = Num(0)
    /\ DOMAIN settings.val = SettingsFields

====
